---- MODULE Spec2Model ----
(***************************************************************************)
(* Chart-Generator: the client-side reducer aggregateData, the two query   *)
(* playgrounds (client-side Gemini playground and the backend-assisted     *)
(* playground) and the helpers they call, as state machines.               *)
(***************************************************************************)
EXTENDS Integers, Sequences, FiniteSets, TLC

VARIABLES
  inTable,      \* reducer: the rows handed to aggregateData
  inMaxRows,    \* reducer: its maxEntries argument
  result,       \* reducer: the outcome of aggregateData(inTable, inMaxRows)
  result2,      \* reducer: the outcome of reducing result.rows again
  phase         \* reducer: input, reduced, again

reduceVars == << inTable, inMaxRows, result, result2, phase >>

(***************************************************************************)
(* JavaScript values.  Numbers are kept in hundredths (Scale) so that      *)
(* parseFloat(avg.toFixed(2)) is exact; NaN is its own value.              *)
(***************************************************************************)
Scale == 100

Num(h) == [t |-> "num", h |-> h, s |-> ""]

N(n) == Num(n * Scale)

Str(s) == [t |-> "str", h |-> 0, s |-> s]

NaN == [t |-> "nan", h |-> 0, s |-> ""]

Undefined == [t |-> "undef", h |-> 0, s |-> ""]

\* typeof v
TypeOf(v) ==
  CASE v.t = "num" -> "number"
    [] v.t = "nan" -> "number"
    [] v.t = "str" -> "string"
    [] OTHER -> "undefined"

\* The decimal literals the model's strings can spell, with their values.
DecimalLiterals ==
  ("0" :> 0) @@ ("1" :> 1) @@ ("2" :> 2) @@ ("5" :> 5) @@ ("10" :> 10)
  @@ ("20" :> 20) @@ ("25" :> 25) @@ ("65" :> 65)

\* Number(v): a string converts when it spells a number, "" converts to 0.
ToNumber(v) ==
  CASE v.t = "num" -> v
    [] v.t = "str" -> IF v.s = "" THEN Num(0)
                      ELSE IF v.s \in DOMAIN DecimalLiterals
                           THEN N(DecimalLiterals[v.s])
                           ELSE NaN
    [] OTHER -> NaN

\* isNaN(Number(v))
IsNaNValue(v) == ToNumber(v).t = "nan"

\* a + b on two numbers
NumAdd(a, b) == IF a.t = "nan" \/ b.t = "nan" THEN NaN ELSE Num(a.h + b.h)

\* !v is false: the truthy values
Truthy(v) ==
  CASE v.t = "num" -> v.h # 0
    [] v.t = "str" -> v.s # ""
    [] OTHER -> FALSE

\* String(n) of a non-negative number kept in hundredths
NumberToString(h) ==
  IF h % Scale = 0 THEN ToString(h \div Scale)
  ELSE IF h % 10 = 0
       THEN ToString(h \div Scale) \o "." \o ToString((h % Scale) \div 10)
       ELSE ToString(h \div Scale) \o "." \o ToString((h % Scale) \div 10)
            \o ToString(h % 10)

\* The property key a value becomes when it indexes an object.
ToPropertyKey(v) ==
  CASE v.t = "num" -> NumberToString(v.h)
    [] v.t = "str" -> v.s
    [] v.t = "nan" -> "NaN"
    [] OTHER -> "undefined"

\* The value of a key that is an array index (those are enumerated first, in
\* ascending order), -1 for every other key.
ArrayIndexOf(v) ==
  CASE v.t = "num" -> IF v.h % Scale = 0 THEN v.h \div Scale ELSE -1
    [] v.t = "str" -> IF v.s \in DOMAIN DecimalLiterals
                      THEN DecimalLiterals[v.s] ELSE -1
    [] OTHER -> -1

\* Properties every object literal inherits from Object.prototype.
ObjectPrototypeKeys ==
  {"constructor", "toString", "valueOf", "hasOwnProperty", "isPrototypeOf",
   "propertyIsEnumerable", "toLocaleString", "__proto__"}

(***************************************************************************)
(* Rows: an object is its properties in insertion order; a table element   *)
(* that is no object (null in an uploaded JSON array) has obj = FALSE.     *)
(***************************************************************************)
Obj(props) == [obj |-> TRUE, props |-> props]

NullRow == [obj |-> FALSE, props |-> << >>]

Prop(k, v) == [k |-> k, v |-> v]

\* Object.keys(row)
Keys(row) == [i \in 1..Len(row.props) |-> row.props[i].k]

KeySet(row) == {row.props[i].k : i \in 1..Len(row.props)}

Includes(seq, x) == \E i \in 1..Len(seq) : seq[i] = x

\* row[k]
Get(row, k) ==
  IF k \in KeySet(row)
  THEN row.props[CHOOSE i \in 1..Len(row.props) : row.props[i].k = k].v
  ELSE Undefined

\* row[k] = v: an existing key keeps its place
Put(row, k, v) ==
  IF k \in KeySet(row)
  THEN [row EXCEPT !.props =
          [i \in 1..Len(row.props) |->
             IF row.props[i].k = k THEN Prop(k, v) ELSE row.props[i]]]
  ELSE [row EXCEPT !.props = Append(row.props, Prop(k, v))]

\* { k1: v1, k2: v2, k3: v3 } with computed keys: a repeated key keeps its
\* first place and takes the last value
Object3(k1, v1, k2, v2, k3, v3) ==
  Put(Put(Put(Obj(<< >>), k1, v1), k2, v2), k3, v3)

\* The columns of a table
Columns(table) == UNION {KeySet(table[i]) : i \in 1..Len(table)}

(***************************************************************************)
(* aggregateData (components/QueryPlayground.jsx).  A call either returns  *)
(* rows or throws; method names the return statement that produced the     *)
(* rows.  The operator yields the set of outcomes a call can have: one,    *)
(* except where Array.prototype.sort is handed an inconsistent comparator. *)
(***************************************************************************)
Returned(rows, method) == [threw |-> FALSE, rows |-> rows, method |-> method]

Threw == [threw |-> TRUE, rows |-> << >>, method |-> "throw"]

AllObjects(data) == \A i \in 1..Len(data) : data[i].obj

\* data.slice(0, n)
Slice(data, n) == SubSeq(data, 1, IF n < Len(data) THEN n ELSE Len(data))

\* key => typeof firstItem[key] === 'number' || !isNaN(Number(firstItem[key]))
IsNumericField(firstItem, key) ==
  \/ TypeOf(Get(firstItem, key)) = "number"
  \/ ~IsNaNValue(Get(firstItem, key))

\* key => typeof firstItem[key] === 'string' && !numericFields.includes(key)
IsCategoryField(firstItem, key) ==
  /\ TypeOf(Get(firstItem, key)) = "string"
  /\ ~IsNumericField(firstItem, key)

NumericFields(firstItem) ==
  SelectSeq(Keys(firstItem), LAMBDA key : IsNumericField(firstItem, key))

CategoryFields(firstItem) ==
  SelectSeq(Keys(firstItem), LAMBDA key : IsCategoryField(firstItem, key))

\* The Outcome branch: two counters, Positive (1) and Negative (0).
OutcomeCounts(data) ==
  LET positive == Cardinality({i \in 1..Len(data) :
                      Get(data[i], "Outcome") \in {N(1), Str("1")}})
  IN << Obj(<< Prop("category", Str("Positive (1)")), Prop("count", N(positive)) >>),
        Obj(<< Prop("category", Str("Negative (0)")),
               Prop("count", N(Len(data) - positive)) >>) >>

AgeRangeNames == << "20-29", "30-39", "40-49", "50-59", "60+" >>

\* The range an item's Age falls in; every comparison with NaN is false.
AgeRangeOf(item) ==
  LET age == ToNumber(Get(item, "Age"))
  IN IF age.t = "nan" THEN "60+"
     ELSE IF age.h < 30 * Scale THEN "20-29"
     ELSE IF age.h < 40 * Scale THEN "30-39"
     ELSE IF age.h < 50 * Scale THEN "40-49"
     ELSE IF age.h < 60 * Scale THEN "50-59"
     ELSE "60+"

\* The Age branch: Object.values(ageRanges), five counters.
AgeRanges(data) ==
  [r \in 1..Len(AgeRangeNames) |->
     Obj(<< Prop("category", Str(AgeRangeNames[r])),
            Prop("count", N(Cardinality({i \in 1..Len(data) :
                                 AgeRangeOf(data[i]) = AgeRangeNames[r]}))) >>)]

\* data.forEach of the category branch, from item i on.  aggregated holds the
\* own properties of the accumulator in insertion order.  A category whose key
\* is inherited from Object.prototype is truthy without being an own property:
\* no entry is made for it and the sums go to the inherited object.
RECURSIVE GroupRows(_, _, _, _, _)
GroupRows(data, i, categoryField, numericField, aggregated) ==
  IF i > Len(data) THEN aggregated
  ELSE
    LET item == data[i]
        category == Get(item, categoryField)
        key == ToPropertyKey(category)
        own == \E j \in 1..Len(aggregated) : aggregated[j].key = key
        inherited == ~own /\ key \in ObjectPrototypeKeys
        created ==
          IF own THEN aggregated
          ELSE Append(aggregated,
                 [key |-> key, idx |-> ArrayIndexOf(category),
                  row |-> Object3(categoryField, category,
                                  numericField, N(0), "count", N(0))])
        j == CHOOSE j \in 1..Len(created) : created[j].key = key
        added == Put(created[j].row, numericField,
                     NumAdd(Get(created[j].row, numericField),
                            ToNumber(Get(item, numericField))))
        counted == Put(added, "count", NumAdd(Get(added, "count"), N(1)))
    IN IF inherited
       THEN GroupRows(data, i + 1, categoryField, numericField, aggregated)
       ELSE GroupRows(data, i + 1, categoryField, numericField,
                      [created EXCEPT ![j].row = counted])

\* Object.values(aggregated): array-index keys ascending, then the other keys
\* in insertion order.
ObjectValues(aggregated) ==
  LET indexed == SelectSeq(aggregated, LAMBDA e : e.idx >= 0)
      others == SelectSeq(aggregated, LAMBDA e : e.idx < 0)
      rank(e) == 1 + Cardinality({f \in 1..Len(indexed) : indexed[f].idx < e.idx})
      ordered == [r \in 1..Len(indexed) |->
                    indexed[CHOOSE f \in 1..Len(indexed) : rank(indexed[f]) = r]]
      all == ordered \o others
  IN [r \in 1..Len(all) |-> all[r].row]

\* (a, b) => b[numericField] - a[numericField] is negative: a goes first.
\* A NaN difference counts as 0.
Before(a, b, numericField) ==
  LET x == Get(a, numericField)
      y == Get(b, numericField)
  IN x.t = "num" /\ y.t = "num" /\ x.h > y.h

Orderings(n) == {p \in [1..n -> 1..n] : \A a, b \in 1..n : p[a] = p[b] => a = b}

\* values.sort(comparator).  The sort is stable; when the comparator is not a
\* consistent ordering (a NaN beside unequal sums) the order is the engine's.
SortOutcomes(values, numericField) ==
  LET n == Len(values)
      hasNaN == \E i \in 1..n : Get(values[i], numericField).t = "nan"
      unequal == \E i, k \in 1..n : Before(values[i], values[k], numericField)
      place(i) == 1 + Cardinality({k \in 1..n :
                        \/ Before(values[k], values[i], numericField)
                        \/ /\ k < i
                           /\ ~Before(values[i], values[k], numericField)})
  IN IF hasNaN /\ unequal
     THEN {[r \in 1..n |-> values[p[r]]] : p \in Orderings(n)}
     ELSE {[r \in 1..n |-> values[CHOOSE i \in 1..n : place(i) = r]]}

\* The category branch: group, sum, sort descending, slice.
AggregateByCategory(data, categoryField, numericField, maxEntries) ==
  LET values == ObjectValues(GroupRows(data, 1, categoryField, numericField, << >>))
  IN {Slice(sorted, maxEntries) : sorted \in SortOutcomes(values, numericField)}

\* item[field] || 0
OrZero(v) == IF Truthy(v) THEN v ELSE N(0)

\* data.reduce((acc, item) => acc + Number(item[field] || 0), 0) over the
\* first i items
RECURSIVE SumField(_, _, _)
SumField(data, field, i) ==
  IF i = 0 THEN N(0)
  ELSE NumAdd(SumField(data, field, i - 1), ToNumber(OrZero(Get(data[i], field))))

\* parseFloat((sum / n).toFixed(2)) of a non-negative sum
Average(sum, n) ==
  IF sum.t = "nan" THEN NaN ELSE Num((2 * sum.h + n) \div (2 * n))

\* The numeric-only branch keyed by the field's own name.
AverageUnderFieldName(data, numericFields) ==
  [f \in 1..Len(numericFields) |->
     Obj(<< Prop(numericFields[f],
                 Average(SumField(data, numericFields[f], Len(data)), Len(data))),
            Prop("count", N(Len(data))) >>)]

\* The numeric-only branch: one row per numeric field.
AverageNumericFields(data, numericFields) ==
  [f \in 1..Len(numericFields) |->
     Obj(<< Prop("metric", Str(numericFields[f])),
            Prop("average", Average(SumField(data, numericFields[f], Len(data)),
                                    Len(data))),
            Prop("count", N(Len(data))) >>)]

\* The last return missing: nothing comes back when no branch applies, and the
\* caller's use of the result throws.
TruncateMissing(data, maxEntries) == {Threw}

\* return data.slice(0, maxEntries);
Truncate(data, maxEntries) == {Returned(Slice(data, maxEntries), "sample")}

\* aggregateData with the category branch tried before the Outcome and Age
\* special cases.
AggregateLargeCategoryFirst(data, maxEntries) ==
  LET firstItem == data[1]
      keys == Keys(firstItem)
      numericFields == NumericFields(firstItem)
      categoryFields == CategoryFields(firstItem)
  IN IF ~AllObjects(data) THEN {Threw}
     ELSE IF Len(numericFields) > 0 /\ Len(categoryFields) > 0
     THEN {Returned(rows, "aggregate") :
             rows \in AggregateByCategory(data, categoryFields[1],
                                          numericFields[1], maxEntries)}
     ELSE IF Includes(keys, "Outcome")
     THEN {Returned(OutcomeCounts(data), "outcome")}
     ELSE IF Includes(keys, "Age")
     THEN {Returned(AgeRanges(data), "age")}
     ELSE IF Len(numericFields) > 0
     THEN {Returned(AverageNumericFields(data, numericFields), "average")}
     ELSE Truncate(data, maxEntries)

\* aggregateData past its early return (lines 81-166): data has more than
\* maxEntries items.  data.forEach reads a property of every item, which throws
\* on an item that is no object; slice reads none.
AggregateLarge(data, maxEntries) ==
  IF ~data[1].obj THEN {Threw}
  ELSE
    LET firstItem == data[1]
        keys == Keys(firstItem)
        numericFields == NumericFields(firstItem)
        categoryFields == CategoryFields(firstItem)
    IN IF Includes(keys, "Outcome")
       THEN IF AllObjects(data)
            THEN {Returned(OutcomeCounts(data), "outcome")} ELSE {Threw}
       ELSE IF Includes(keys, "Age")
       THEN IF AllObjects(data)
            THEN {Returned(AgeRanges(data), "age")} ELSE {Threw}
       ELSE IF Len(numericFields) > 0 /\ Len(categoryFields) > 0
       THEN IF AllObjects(data)
            THEN {Returned(rows, "aggregate") :
                    rows \in AggregateByCategory(data, categoryFields[1],
                                                 numericFields[1], maxEntries)}
            ELSE {Threw}
       ELSE IF Len(numericFields) > 0
       THEN IF AllObjects(data)
            THEN {Returned(AverageNumericFields(data, numericFields), "average")}
            ELSE {Threw}
       ELSE Truncate(data, maxEntries)

\* aggregateData returning early only below maxEntries items.
aggregateDataBelowOnly(data, maxEntries) ==
  IF Len(data) < maxEntries THEN {Returned(data, "none")}
  ELSE AggregateLarge(data, maxEntries)

\* if (!data || data.length <= maxEntries) return data;
aggregateData(data, maxEntries) ==
  IF Len(data) <= maxEntries THEN {Returned(data, "none")}
  ELSE AggregateLarge(data, maxEntries)

(***************************************************************************)
(* The reducer's inputs: tables whose rows share one column list, over     *)
(* column lists that reach every branch.  A column draws its cells from a  *)
(* small domain; some tables hold a null where a row should be.            *)
(***************************************************************************)
MaxLen == 3

MaxRows == 2

Col(name, domain) == [name |-> name, domain |-> domain]

DomainValues(domain) ==
  CASE domain = "num3" -> {N(5), N(10), N(20)}
    [] domain = "num" -> {N(1), N(2)}
    [] domain = "cat" -> {Str("A"), Str("B")}
    [] domain = "cat3" -> {Str("A"), Str("B"), Str("C")}
    [] domain = "proto" -> {Str("A"), Str("constructor")}
    [] domain = "outcome" -> {N(0), Str("1")}
    [] domain = "age" -> {N(25), N(65)}
    [] domain = "mixed" -> {N(1), Str("A")}
    [] domain = "date" -> {Str("2024-01-01"), Str("2024-01-02")}
    [] domain = "numstr" -> {Str("1"), Str("2")}
    [] domain = "catnum" -> {Str("A"), N(1)}

Schemas ==
  { << Col("category", "cat"), Col("value", "num3") >>,
    << Col("value", "num"), Col("category", "proto") >>,
    << Col("Outcome", "outcome"), Col("name", "cat") >>,
    << Col("Age", "age"), Col("name", "cat") >>,
    << Col("x", "num"), Col("y", "num") >>,
    << Col("a", "cat"), Col("b", "cat") >>,
    << Col("category", "cat"), Col("count", "num") >>,
    << Col("m", "mixed"), Col("label", "cat3") >>,
    << Col("date", "date"), Col("value", "num") >>,
    << Col("id", "numstr"), Col("category", "cat") >>,
    << Col("value", "num"), Col("category", "catnum") >>,
    << Col("x", "num") >> }

\* The column lists whose tables may hold a null in place of a row.
NullableSchemas == { << Col("category", "cat"), Col("value", "num") >> }

AllValues ==
  UNION {UNION {DomainValues(schema[i].domain) : i \in 1..Len(schema)} :
           schema \in Schemas \cup NullableSchemas}

RowsOf(schema) ==
  {Obj([i \in 1..Len(schema) |-> Prop(schema[i].name, cells[i])]) :
     cells \in {c \in [1..Len(schema) -> AllValues] :
                  \A i \in 1..Len(schema) : c[i] \in DomainValues(schema[i].domain)}}

TablesOver(rows) == UNION {[1..n -> rows] : n \in 0..MaxLen}

Tables ==
  UNION ({TablesOver(RowsOf(schema)) : schema \in Schemas}
         \cup {TablesOver(RowsOf(schema) \cup {NullRow}) : schema \in NullableSchemas})

NoResult == [threw |-> FALSE, rows |-> << >>, method |-> "pending"]

(***************************************************************************)
(* The query playgrounds.  Both components keep the same React state; the  *)
(* handlers of the backend-assisted playground (unnamed/part_005) and of   *)
(* the client-side playground (components/QueryPlayground.jsx) differ.     *)
(* An async handler is one action per synchronous segment: what it read    *)
(* from the render it was created in travels with the pending call.        *)
(***************************************************************************)
VARIABLES
  apiKey,            \* environment: NEXT_PUBLIC_GEMINI_API_KEY set or unset
  isMounted,
  serverCheck,       \* the mount effect's checkServerStatus call
  userQuery,
  userData,          \* "null" or the name of the uploaded table
  sampleData,
  dataSummary,
  generatedCode,
  editableCode,
  isLoading,
  error,
  selectedChartType,
  dataLimit,
  insights,
  additionalCharts,
  serverStatus,      \* "null", "true", "false"
  geminiKeyValid,
  submits,           \* handleQuerySubmit calls suspended at an await
  uploads            \* handleDataUpload calls suspended at analyzeData

playVars ==
  << apiKey, isMounted, serverCheck, userQuery, userData, sampleData,
     dataSummary, generatedCode, editableCode, isLoading, error,
     selectedChartType, dataLimit, insights, additionalCharts, serverStatus,
     geminiKeyValid, submits, uploads >>

(***************************************************************************)
(* The DataUploader (components/DataUploader.jsx, in its client-side       *)
(* version and in the version that uploads to the backend).  delivered is  *)
(* the list of onDataUpload calls the parent received.                     *)
(***************************************************************************)
VARIABLES
  upCheck,           \* the uploader's own checkServerStatus call
  upServerStatus,    \* the uploader's serverStatus: "null", "true", "false"
  upError,
  upIsLoading,
  successMessage,
  fileName,
  loads,             \* uploads, file reads and timers that have not settled
  delivered

uploaderVars ==
  << upCheck, upServerStatus, upError, upIsLoading, successMessage, fileName,
     loads, delivered >>

\* One ChartPreview: the props it was last rendered with, its chartType
\* state, its chartCode state, and the effects its last render scheduled.
VARIABLES previewProps, chartType, chartCode, effectsDue

previewVars == << previewProps, chartType, chartCode, effectsDue >>

\* The launcher script: where startServers stands, how the launcher
\* process ended, what the machine holds (env), the two child processes
\* and the names of the children in the order they were spawned.
VARIABLES launcherPc, exitCode, env, backendProc, frontendProc, spawned

launcherVars ==
  << launcherPc, exitCode, env, backendProc, frontendProc, spawned >>

vars == << reduceVars, playVars, uploaderVars, previewVars, launcherVars >>

\* A child process that was never spawned
NoProc ==
  [name |-> "", state |-> "none", code |-> "none", signals |-> << >>,
   interrupted |-> FALSE, logged |-> FALSE]

\* The launcher script is not run
LauncherIdle ==
  /\ launcherPc = "idle"
  /\ exitCode = "running"
  /\ env = [python |-> "0", backendDir |-> TRUE, requirements |-> TRUE]
  /\ backendProc = NoProc
  /\ frontendProc = NoProc
  /\ spawned = << >>

NoChartCode == [template |-> "", keys |-> << >>]

\* The props of a ChartPreview nobody has rendered.
NoProps == [chartType |-> "", data |-> "undefined", autoGenerate |-> FALSE,
            code |-> {}]

PreviewIdle ==
  /\ previewProps = NoProps
  /\ chartType = "BarChart"
  /\ chartCode = NoChartCode
  /\ effectsDue = {}

\* The state a DataUploader is constructed with.
UploaderConstructed ==
  /\ upCheck = "idle"
  /\ upServerStatus = "null"
  /\ upError = "null"
  /\ upIsLoading = FALSE
  /\ successMessage = ""
  /\ fileName = ""
  /\ loads = << >>
  /\ delivered = << >>

\* The longest query the user types, and the most handleDataUpload calls
\* that wait for analyzeData at once.
MaxQueryLen == 1

MaxPending == 1

\* The texts a query box can hold: characters are a blank or a letter.
Queries == UNION {[1..n -> {" ", "q"}] : n \in 0..MaxQueryLen}

\* s.trim()
RECURSIVE Trim(_)
Trim(s) ==
  IF s = << >> THEN s
  ELSE IF Head(s) = " " THEN Trim(Tail(s))
       ELSE IF s[Len(s)] = " " THEN Trim(SubSeq(s, 1, Len(s) - 1))
            ELSE s

\* CHART_TYPES: the entries of the select the model lets the user pick.
CHART_TYPES == {"BarChart", "PieChart"}

\* The tables a DataUploader can hand to onDataUpload, by name.
DataNames == {"sample", "file"}

\* A table as a value handed on: an uploaded table, or the processed_data
\* the backend answered to a processQuery call on it.
NoData == [kind |-> "none", name |-> "null"]

Uploaded(name) == [kind |-> "uploaded", name |-> name]

ProcessedData(name) == [kind |-> "processed", name |-> name]

\* Chart code: the empty string, the text the model answered to a prompt
\* (told apart by the data in the prompt), or text typed into the editor.  parts are the substrings the client-side validation
\* looks for.
CodeParts == {"import", "ResponsiveContainer", "render("}

NoCode == [text |-> "", data |-> NoData, parts |-> {}]

GeneratedCodeFor(data, parts) ==
  [text |-> "generated", data |-> data, parts |-> parts]

TypedCode == [text |-> "typed", data |-> NoData, parts |-> {}]

\* dataSummary: null, or the summary of a table
NoSummary == [of |-> "null"]

SummaryOf(name) == [of |-> name]

\* The state both components are constructed with, but for dataLimit.
Constructed(limit) ==
  /\ isMounted = FALSE
  /\ serverCheck = "idle"
  /\ userQuery = << >>
  /\ userData = "null"
  /\ dataSummary = NoSummary
  /\ generatedCode = NoCode
  /\ editableCode = NoCode
  /\ isLoading = FALSE
  /\ error = "null"
  /\ selectedChartType = "BarChart"
  /\ dataLimit = limit
  /\ insights = "none"
  /\ additionalCharts = "none"
  /\ serverStatus = "null"
  /\ geminiKeyValid = TRUE
  /\ submits = << >>
  /\ uploads = << >>

InitReduce ==
  /\ UploaderConstructed
  /\ PreviewIdle
  /\ LauncherIdle
  /\ apiKey = "set"
  /\ sampleData = "sample"
  /\ Constructed(50)
  /\ inTable \in Tables
  /\ inMaxRows \in 1..MaxRows
  /\ result = NoResult
  /\ result2 = NoResult
  /\ phase = "input"

\* reduce(table, maxRows)
Reduce ==
  /\ phase = "input"
  /\ result' \in aggregateData(inTable, inMaxRows)
  /\ phase' = "reduced"
  /\ UNCHANGED << inTable, inMaxRows, result2, playVars, uploaderVars, previewVars, launcherVars >>

\* reduce(reduce(table, maxRows).rows, maxRows)
ReduceAgain ==
  /\ phase = "reduced"
  /\ ~result.threw
  /\ result2' \in aggregateData(result.rows, inMaxRows)
  /\ phase' = "again"
  /\ UNCHANGED << inTable, inMaxRows, result, playVars, uploaderVars, previewVars, launcherVars >>

NextReduce == Reduce \/ ReduceAgain

SpecReduce == InitReduce /\ [][NextReduce]_vars

(***************************************************************************)
(* What the reduction contract calls a table and its column types, judged  *)
(* over every row (the code judges the first row only).                    *)
(***************************************************************************)
IsTable(data) == Len(data) > 0 /\ AllObjects(data)

IsDateString(v) == v.t = "str" /\ v.s \in {"2024-01-01", "2024-01-02"}

ColumnIsNumeric(data, col) ==
  \A i \in 1..Len(data) : Get(data[i], col).t = "num"

ColumnIsDatetime(data, col) ==
  \A i \in 1..Len(data) : IsDateString(Get(data[i], col))

ColumnIsCategorical(data, col) ==
  /\ \A i \in 1..Len(data) :
       Get(data[i], col).t = "str" /\ IsNaNValue(Get(data[i], col))
  /\ ~ColumnIsDatetime(data, col)

NumericColumns(data) ==
  SelectSeq(Keys(data[1]), LAMBDA col : ColumnIsNumeric(data, col))

CategoricalColumns(data) ==
  SelectSeq(Keys(data[1]), LAMBDA col : ColumnIsCategorical(data, col))

DatetimeColumns(data) ==
  SelectSeq(Keys(data[1]), LAMBDA col : ColumnIsDatetime(data, col))

\* The sum, in hundredths, of column num over the first i rows whose column
\* cat holds category
RECURSIVE CategoryTotal(_, _, _, _, _)
CategoryTotal(data, cat, category, num, i) ==
  IF i = 0 THEN 0
  ELSE CategoryTotal(data, cat, category, num, i - 1)
       + (IF Get(data[i], cat) = category THEN Get(data[i], num).h ELSE 0)

Reduced == phase # "input"

\* C1: for every table and maxRows >= 1 the reducer returns at most maxRows
\* rows, and exactly the original rows when the table has at most maxRows
\* rows, on every branch.
C1_AtMostMaxRows ==
  (Reduced /\ IsTable(inTable)) =>
    /\ ~result.threw
    /\ Len(result.rows) <= inMaxRows
    /\ Len(inTable) <= inMaxRows => result.rows = inTable

\* C2: on a table with a categorical and a numeric column and more than
\* maxRows rows, category aggregation yields one row per distinct category
\* value, holding the sum of the numeric column over that category's rows,
\* in non-increasing order of the sum, truncated to the maxRows largest.
C2_SumPerCategory ==
  ( /\ Reduced
    /\ IsTable(inTable)
    /\ Len(inTable) > inMaxRows
    /\ result.method = "aggregate"
    /\ Len(CategoricalColumns(inTable)) > 0
    /\ Len(NumericColumns(inTable)) > 0 ) =>
    LET cat == CategoricalColumns(inTable)[1]
        num == NumericColumns(inTable)[1]
        categories == {Get(inTable[i], cat) : i \in 1..Len(inTable)}
        total(c) == CategoryTotal(inTable, cat, c, num, Len(inTable))
        rows == result.rows
        kept == {Get(rows[r], cat) : r \in 1..Len(rows)}
    IN /\ Len(rows) = IF Cardinality(categories) < inMaxRows
                      THEN Cardinality(categories) ELSE inMaxRows
       /\ kept \subseteq categories
       /\ Cardinality(kept) = Len(rows)
       /\ \A r \in 1..Len(rows) :
            Get(rows[r], num) = Num(total(Get(rows[r], cat)))
       /\ \A r \in 1..Len(rows) - 1 :
            Get(rows[r], num).h >= Get(rows[r + 1], num).h
       /\ \A c \in categories \ kept : \A k \in kept : total(c) <= total(k)

\* C3: a table of at most maxRows rows is returned unchanged (same rows, same
\* order, same columns and cells), by the branch that reduces nothing,
\* whatever its column names or types.
C3_SmallTableUnchanged ==
  (Reduced /\ Len(inTable) <= inMaxRows) => result = Returned(inTable, "none")

C3_Witness ==
  /\ phase = "reduced"
  /\ Len(inTable) = inMaxRows
  /\ "Outcome" \in Columns(inTable)
  /\ result.rows = inTable

\* C4 as stated: the method follows the priority order resample (a datetime
\* and a numeric column), aggregate (a categorical and a numeric column),
\* cluster (two numeric columns and a large row count, which no table here
\* has), sample; no other branch pre-empts it.
C4_SpecifiedPriorityOrder ==
  (Reduced /\ IsTable(inTable)) =>
    LET numeric == Len(NumericColumns(inTable)) > 0
    IN result.method =
         IF Len(inTable) <= inMaxRows THEN "none"
         ELSE IF numeric /\ Len(DatetimeColumns(inTable)) > 0 THEN "resample"
         ELSE IF numeric /\ Len(CategoricalColumns(inTable)) > 0 THEN "aggregate"
         ELSE "sample"

\* C4 as amended: past the early return the branches are tried in the order
\* Outcome counts (a key named Outcome), Age ranges (a key named Age),
\* category aggregation (a numeric and a category field in the first row),
\* numeric averaging (a numeric field), truncation; the rows returned are
\* those of the branch.
C4_BranchOrder ==
  (Reduced /\ IsTable(inTable)) =>
    LET big == Len(inTable) > inMaxRows
        first == inTable[1]
        outcome == "Outcome" \in KeySet(first)
        age == "Age" \in KeySet(first)
        numeric == \E key \in KeySet(first) : IsNumericField(first, key)
        category == \E key \in KeySet(first) : IsCategoryField(first, key)
        rows == result.rows
    IN /\ ~result.threw
       /\ ~big <=> result.method = "none"
       /\ (big /\ outcome) <=> result.method = "outcome"
       /\ (big /\ ~outcome /\ age) <=> result.method = "age"
       /\ (big /\ ~outcome /\ ~age /\ numeric /\ category)
            <=> result.method = "aggregate"
       /\ (big /\ ~outcome /\ ~age /\ numeric /\ ~category)
            <=> result.method = "average"
       /\ (big /\ ~outcome /\ ~age /\ ~numeric) <=> result.method = "sample"
       /\ result.method = "none" => rows = inTable
       /\ result.method = "outcome" =>
            /\ Len(rows) = 2
            /\ Get(rows[1], "category") = Str("Positive (1)")
            /\ Get(rows[2], "category") = Str("Negative (0)")
       /\ result.method = "age" =>
            /\ Len(rows) = Len(AgeRangeNames)
            /\ \A r \in 1..Len(rows) :
                 Get(rows[r], "category") = Str(AgeRangeNames[r])
       /\ result.method = "aggregate" =>
            \A r \in 1..Len(rows) :
              \E i \in 1..Len(inTable) :
                Get(rows[r], CategoryFields(first)[1])
                  = Get(inTable[i], CategoryFields(first)[1])
       /\ result.method = "average" =>
            \A r \in 1..Len(rows) :
              Get(rows[r], "metric") = Str(NumericFields(first)[r])
       /\ result.method = "sample" => rows = Slice(inTable, inMaxRows)

C4_Witness ==
  /\ phase = "reduced"
  /\ result.method = "outcome"
  /\ Len(CategoricalColumns(inTable)) > 0
  /\ \E key \in KeySet(inTable[1]) : IsNumericField(inTable[1], key)

\* C5 as stated: the reduced table's columns are a subset of the original's,
\* except for at most one added group-count column.
C5_ColumnsSubsetPlusCount ==
  (Reduced /\ IsTable(inTable)) =>
    Columns(result.rows) \subseteq Columns(inTable) \cup {"count"}

\* C5 as amended: the early return and truncation add no column, category
\* aggregation adds count and nothing else, the Outcome and Age branches return
\* exactly the columns category and count, numeric averaging exactly metric,
\* average and count.
C5_ColumnsByBranch ==
  (Reduced /\ IsTable(inTable)) =>
    LET columns == Columns(result.rows)
    IN /\ result.method \in {"none", "sample"} => columns = Columns(inTable)
       /\ result.method = "aggregate" =>
            /\ columns \subseteq Columns(inTable) \cup {"count"}
            /\ Len(result.rows) > 0 => "count" \in columns
       /\ result.method \in {"outcome", "age"} => columns = {"category", "count"}
       /\ result.method = "average" => columns = {"metric", "average", "count"}

C5_Witness ==
  /\ phase = "reduced"
  /\ result.method = "average"
  /\ Columns(inTable) \cap {"metric", "average", "count"} = {}

\* C6: reducing an already reduced table with the same maxRows returns the
\* same number of rows.
C6_SameRowCountAgain ==
  (phase = "again" /\ IsTable(inTable)) =>
    /\ ~result2.threw
    /\ Len(result2.rows) = Len(result.rows)

ErrQueryAndData == "Please enter a query and upload data first."

ErrGeminiKey ==
  "Gemini API key is not set. Please add your API key to .env.local file."

ErrProcessingQuery == "Error processing query"

ErrGeneratingCode == "Error generating chart code"

ReducerIdle ==
  /\ inTable = << >>
  /\ inMaxRows = 1
  /\ result = NoResult
  /\ result2 = NoResult
  /\ phase = "input"

Init ==
  /\ ReducerIdle
  /\ UploaderConstructed
  /\ PreviewIdle
  /\ LauncherIdle
  /\ apiKey \in {"set", "unset"}
  /\ sampleData = "sample"
  /\ Constructed(50)

\* seq without its i-th element
Without(seq, i) == SubSeq(seq, 1, i - 1) \o SubSeq(seq, i + 1, Len(seq))

\* useEffect(() => {...}, []): runs once, before any event is handled
Mount ==
  /\ ~isMounted
  /\ isMounted' = TRUE
  /\ IF apiKey = "unset"
     THEN geminiKeyValid' = FALSE /\ error' = ErrGeminiKey
     ELSE UNCHANGED << geminiKeyValid, error >>
  /\ serverCheck' = "pending"
  /\ UNCHANGED << reduceVars, uploaderVars, previewVars, launcherVars, apiKey, userQuery, userData, sampleData,
                  dataSummary, generatedCode, editableCode, isLoading,
                  selectedChartType, dataLimit, insights, additionalCharts,
                  serverStatus, submits, uploads >>

\* checkServer after its await: checkServerStatus resolves true or false
checkServer(isRunning) ==
  /\ serverCheck = "pending"
  /\ serverCheck' = "done"
  /\ serverStatus' = isRunning
  /\ UNCHANGED << reduceVars, uploaderVars, previewVars, launcherVars, apiKey, isMounted, userQuery, userData,
                  sampleData, dataSummary, generatedCode, editableCode,
                  isLoading, error, selectedChartType, dataLimit, insights,
                  additionalCharts, geminiKeyValid, submits, uploads >>

\* QueryInput onChange={setUserQuery}; the textarea is disabled while
\* isLoading
setUserQuery(value) ==
  /\ isMounted
  /\ ~isLoading
  /\ value # userQuery
  /\ userQuery' = value
  /\ UNCHANGED << reduceVars, uploaderVars, previewVars, launcherVars, apiKey, isMounted, serverCheck, userData,
                  sampleData, dataSummary, generatedCode, editableCode,
                  isLoading, error, selectedChartType, dataLimit, insights,
                  additionalCharts, serverStatus, geminiKeyValid, submits,
                  uploads >>

\* select onChange={(e) => setSelectedChartType(e.target.value)}
setSelectedChartType(value) ==
  /\ isMounted
  /\ value # selectedChartType
  /\ selectedChartType' = value
  /\ UNCHANGED << reduceVars, uploaderVars, previewVars, launcherVars, apiKey, isMounted, serverCheck, userQuery,
                  userData, sampleData, dataSummary, generatedCode,
                  editableCode, isLoading, error, dataLimit, insights,
                  additionalCharts, serverStatus, geminiKeyValid, submits,
                  uploads >>

\* What the number input can hold, and parseInt of it.
LimitInputs == {"", "abc", "0", "-3"}

ParseInt(text) ==
  CASE text = "0" -> N(0)
    [] text = "-3" -> N(-3)
    [] OTHER -> NaN

\* The mutation of ClampLimit: parseInt(e.target.value) || 10 without
\* Math.max
ClampLimitUnbounded(text) ==
  LET parsed == ParseInt(text)
  IN IF Truthy(parsed) THEN parsed.h \div Scale ELSE 10

\* Math.max(5, parseInt(e.target.value) || 10)
ClampLimit(text) ==
  LET parsed == ParseInt(text)
      orTen == IF Truthy(parsed) THEN parsed.h \div Scale ELSE 10
  IN IF orTen > 5 THEN orTen ELSE 5

\* input onChange={(e) => setDataLimit(Math.max(5, parseInt(...) || 10))}
setDataLimit(text) ==
  /\ isMounted
  /\ ClampLimit(text) # dataLimit
  /\ dataLimit' = ClampLimit(text)
  /\ UNCHANGED << reduceVars, uploaderVars, previewVars, launcherVars, apiKey, isMounted, serverCheck, userQuery,
                  userData, sampleData, dataSummary, generatedCode,
                  editableCode, isLoading, error, selectedChartType,
                  insights, additionalCharts, serverStatus, geminiKeyValid,
                  submits, uploads >>

\* "Reset other states" at the end of handleDataUpload
ResetOtherStates ==
  /\ generatedCode' = NoCode
  /\ editableCode' = NoCode
  /\ userQuery' = << >>
  /\ insights' = "none"
  /\ additionalCharts' = "none"
  /\ error' = "null"

\* handleDataUpload(data, summary) up to its end or to await analyzeData.
\* The uploader passes the backend's summary with an uploaded file and none
\* with the sample data.
handleDataUpload(data, summary) ==
  /\ isMounted
  /\ userData' = data
  /\ IF summary # NoSummary
     THEN /\ dataSummary' = summary
          /\ ResetOtherStates
          /\ UNCHANGED uploads
     ELSE IF serverStatus = "true"
          THEN /\ Len(uploads) < MaxPending
               /\ uploads' = Append(uploads, [data |-> data])
               /\ UNCHANGED << dataSummary, generatedCode, editableCode,
                               userQuery, insights, additionalCharts, error >>
          ELSE /\ ResetOtherStates
               /\ UNCHANGED << dataSummary, uploads >>
  /\ UNCHANGED << reduceVars, uploaderVars, previewVars, launcherVars, apiKey, isMounted, serverCheck, sampleData,
                  isLoading, selectedChartType, dataLimit, serverStatus,
                  geminiKeyValid, submits >>

\* handleDataUpload after await analyzeData(data) resolved
analyzeDataResolved(i) ==
  /\ i \in 1..Len(uploads)
  /\ dataSummary' = SummaryOf(uploads[i].data)
  /\ ResetOtherStates
  /\ uploads' = Without(uploads, i)
  /\ UNCHANGED << reduceVars, uploaderVars, previewVars, launcherVars, apiKey, isMounted, serverCheck, userData,
                  sampleData, isLoading, selectedChartType, dataLimit,
                  serverStatus, geminiKeyValid, submits >>

\* handleDataUpload after await analyzeData(data) rejected: the catch logs
analyzeDataRejected(i) ==
  /\ i \in 1..Len(uploads)
  /\ ResetOtherStates
  /\ uploads' = Without(uploads, i)
  /\ UNCHANGED << reduceVars, uploaderVars, previewVars, launcherVars, apiKey, isMounted, serverCheck, userData,
                  sampleData, dataSummary, isLoading, selectedChartType,
                  dataLimit, serverStatus, geminiKeyValid, submits >>

\* insights: "none" is [], "unavailable" is the one-line list set when the
\* backend is not available, "backend" is the list the backend answered.
\* additionalCharts: "none" is [], "charts" is the list the backend answered.
BackendUnavailable == "unavailable"

\* A submission suspended at an await: what its closure read, which await
\* it is at (pc), how the backend call ended, the suggested_visualization
\* the backend answered ("" when none), and what generateChartCode was
\* called with.
Submission(pc, backend, processedData, suggestedVisualization) ==
  [pc |-> pc, data |-> userData, query |-> userQuery,
   chartType |-> selectedChartType, maxPoints |-> dataLimit,
   backend |-> backend, answered |-> "", processedData |-> processedData,
   suggestedVisualization |-> suggestedVisualization]

\* The mutation of handleQuerySubmit: the button and the textarea are not
\* disabled while isLoading (at most two submissions at once)
handleQuerySubmitUngated ==
  /\ isMounted
  /\ Len(submits) < 2
  /\ IF Trim(userQuery) = << >> \/ userData = "null"
     THEN /\ error' = ErrQueryAndData
          /\ UNCHANGED << isLoading, insights, submits >>
     ELSE IF ~geminiKeyValid
          THEN /\ error' = ErrGeminiKey
               /\ UNCHANGED << isLoading, insights, submits >>
          ELSE /\ isLoading' = TRUE
               /\ error' = "null"
               /\ IF serverStatus = "true"
                  THEN /\ submits' =
                            Append(submits,
                                   Submission("processQuery", "pending",
                                              Uploaded(userData),
                                              selectedChartType))
                       /\ UNCHANGED insights
                  ELSE /\ insights' = BackendUnavailable
                       /\ submits' =
                            Append(submits,
                                   Submission("generateContent", "down",
                                              Uploaded(userData),
                                              selectedChartType))
  /\ UNCHANGED << reduceVars, uploaderVars, previewVars, launcherVars, apiKey, isMounted, serverCheck, userQuery,
                  userData, sampleData, dataSummary, generatedCode,
                  editableCode, selectedChartType, dataLimit,
                  additionalCharts, serverStatus, geminiKeyValid, uploads >>

\* handleQuerySubmit up to its return or first await.  The Generate button
\* and the textarea (Ctrl+Enter) are disabled while isLoading.
handleQuerySubmit ==
  /\ isMounted
  /\ ~isLoading
  /\ IF Trim(userQuery) = << >> \/ userData = "null"
     THEN /\ error' = ErrQueryAndData
          /\ UNCHANGED << isLoading, insights, submits >>
     ELSE IF ~geminiKeyValid
          THEN /\ error' = ErrGeminiKey
               /\ UNCHANGED << isLoading, insights, submits >>
          ELSE /\ isLoading' = TRUE
               /\ error' = "null"
               /\ IF serverStatus = "true"
                  THEN /\ submits' =
                            Append(submits,
                                   Submission("processQuery", "pending",
                                              Uploaded(userData),
                                              selectedChartType))
                       /\ UNCHANGED insights
                  ELSE /\ insights' = BackendUnavailable
                       /\ submits' =
                            Append(submits,
                                   Submission("generateContent", "down",
                                              Uploaded(userData),
                                              selectedChartType))
  /\ UNCHANGED << reduceVars, uploaderVars, previewVars, launcherVars, apiKey, isMounted, serverCheck, userQuery,
                  userData, sampleData, dataSummary, generatedCode,
                  editableCode, selectedChartType, dataLimit,
                  additionalCharts, serverStatus, geminiKeyValid, uploads >>

\* What the backend can answer to processQuery(data, query, maxPoints):
\* insights and charts may be missing, suggested_visualization missing or
\* empty ("").
ProcessResults(s) ==
  [processed_data : {ProcessedData(s.data)},
   insights : {"missing", "backend"},
   suggested_visualization : {"", "LineChart"},
   charts : {"missing", "charts"}]

\* The mutation of processQueryResolved: generateChartCode is called with
\* the original data and the selected chart type
processQueryResolvedKeepsOriginal(i, res) ==
  /\ i \in 1..Len(submits)
  /\ submits[i].pc = "processQuery"
  /\ res \in ProcessResults(submits[i])
  /\ additionalCharts' =
       IF res.charts # "missing" THEN res.charts ELSE additionalCharts
  /\ insights' = IF res.insights # "missing" THEN res.insights ELSE "none"
  /\ submits' =
       [submits EXCEPT ![i] =
          [@ EXCEPT !.pc = "generateContent",
                    !.backend = "ok",
                    !.answered = res.suggested_visualization]]
  /\ UNCHANGED << reduceVars, uploaderVars, previewVars, launcherVars, apiKey, isMounted, serverCheck, userQuery,
                  userData, sampleData, dataSummary, generatedCode,
                  editableCode, isLoading, error, selectedChartType,
                  dataLimit, serverStatus, geminiKeyValid, uploads >>

\* handleQuerySubmit after await processQuery(...) resolved, up to the
\* await in generateChartCode
processQueryResolved(i, res) ==
  /\ i \in 1..Len(submits)
  /\ submits[i].pc = "processQuery"
  /\ res \in ProcessResults(submits[i])
  /\ additionalCharts' =
       IF res.charts # "missing" THEN res.charts ELSE additionalCharts
  /\ insights' = IF res.insights # "missing" THEN res.insights ELSE "none"
  /\ submits' =
       [submits EXCEPT ![i] =
          [@ EXCEPT !.pc = "generateContent",
                    !.backend = "ok",
                    !.answered = res.suggested_visualization,
                    !.processedData = res.processed_data,
                    !.suggestedVisualization =
                       IF res.suggested_visualization # ""
                       THEN res.suggested_visualization
                       ELSE @]]
  /\ UNCHANGED << reduceVars, uploaderVars, previewVars, launcherVars, apiKey, isMounted, serverCheck, userQuery,
                  userData, sampleData, dataSummary, generatedCode,
                  editableCode, isLoading, error, selectedChartType,
                  dataLimit, serverStatus, geminiKeyValid, uploads >>

\* The mutation of processQueryRejected: the rejection reaches the outer
\* catch
processQueryRejectedSurfaced(i) ==
  /\ i \in 1..Len(submits)
  /\ submits[i].pc = "processQuery"
  /\ error' = ErrProcessingQuery
  /\ isLoading' = FALSE
  /\ submits' = Without(submits, i)
  /\ UNCHANGED << reduceVars, uploaderVars, previewVars, launcherVars, apiKey, isMounted, serverCheck, userQuery,
                  userData, sampleData, dataSummary, generatedCode,
                  editableCode, selectedChartType, dataLimit, insights,
                  additionalCharts, serverStatus, geminiKeyValid, uploads >>

\* handleQuerySubmit after await processQuery(...) rejected (or resolved to
\* null, so that result.processed_data throws): the inner catch falls back
\* to the original data
processQueryRejected(i) ==
  /\ i \in 1..Len(submits)
  /\ submits[i].pc = "processQuery"
  /\ submits' =
       [submits EXCEPT ![i] =
          [@ EXCEPT !.pc = "generateContent",
                    !.backend = "rejected",
                    !.processedData = Uploaded(submits[i].data)]]
  /\ UNCHANGED << reduceVars, uploaderVars, previewVars, launcherVars, apiKey, isMounted, serverCheck, userQuery,
                  userData, sampleData, dataSummary, generatedCode,
                  editableCode, isLoading, error, selectedChartType,
                  dataLimit, insights, additionalCharts, serverStatus,
                  geminiKeyValid, uploads >>

\* generateChartCode after await model.generateContent(prompt) resolved,
\* and the finally of handleQuerySubmit.  The cleaned text is code or "".
generateContentResolved(i, blank) ==
  /\ i \in 1..Len(submits)
  /\ submits[i].pc = "generateContent"
  /\ LET s == submits[i]
         cleanedCode ==
           IF blank THEN NoCode
           ELSE GeneratedCodeFor(s.processedData, CodeParts)
     IN /\ generatedCode' = cleanedCode
        /\ editableCode' = cleanedCode
  /\ isLoading' = FALSE
  /\ submits' = Without(submits, i)
  /\ UNCHANGED << reduceVars, uploaderVars, previewVars, launcherVars, apiKey, isMounted, serverCheck, userQuery,
                  userData, sampleData, dataSummary, error,
                  selectedChartType, dataLimit, insights, additionalCharts,
                  serverStatus, geminiKeyValid, uploads >>

\* The mutation of generateContentRejected: handleQuerySubmit without its
\* finally block
generateContentRejectedNoFinally(i) ==
  /\ i \in 1..Len(submits)
  /\ submits[i].pc = "generateContent"
  /\ error' = ErrGeneratingCode
  /\ submits' = Without(submits, i)
  /\ UNCHANGED << reduceVars, uploaderVars, previewVars, launcherVars, apiKey, isMounted, serverCheck, userQuery,
                  userData, sampleData, dataSummary, generatedCode,
                  editableCode, isLoading, selectedChartType, dataLimit,
                  insights, additionalCharts, serverStatus, geminiKeyValid,
                  uploads >>

\* generateChartCode after await model.generateContent(prompt) rejected:
\* its catch sets the error; then the finally of handleQuerySubmit
generateContentRejected(i) ==
  /\ i \in 1..Len(submits)
  /\ submits[i].pc = "generateContent"
  /\ error' = ErrGeneratingCode
  /\ isLoading' = FALSE
  /\ submits' = Without(submits, i)
  /\ UNCHANGED << reduceVars, uploaderVars, previewVars, launcherVars, apiKey, isMounted, serverCheck, userQuery,
                  userData, sampleData, dataSummary, generatedCode,
                  editableCode, selectedChartType, dataLimit, insights,
                  additionalCharts, serverStatus, geminiKeyValid, uploads >>

\* The mutation of handleCodeEdit: the edited text is rendered as it is
\* typed
handleCodeEditLive(newCode) ==
  /\ isMounted
  /\ newCode # editableCode
  /\ editableCode' = newCode
  /\ generatedCode' = newCode
  /\ UNCHANGED << reduceVars, uploaderVars, previewVars, launcherVars, apiKey, isMounted, serverCheck, userQuery,
                  userData, sampleData, dataSummary,
                  isLoading, error, selectedChartType, dataLimit, insights,
                  additionalCharts, serverStatus, geminiKeyValid, submits,
                  uploads >>

\* CodeDisplay onChange={handleCodeEdit}: the editor's new text (the model
\* lets the user type one text)
handleCodeEdit(newCode) ==
  /\ isMounted
  /\ newCode # editableCode
  /\ editableCode' = newCode
  /\ UNCHANGED << reduceVars, uploaderVars, previewVars, launcherVars, apiKey, isMounted, serverCheck, userQuery,
                  userData, sampleData, dataSummary, generatedCode,
                  isLoading, error, selectedChartType, dataLimit, insights,
                  additionalCharts, serverStatus, geminiKeyValid, submits,
                  uploads >>

\* Run Code, disabled={!editableCode}
handleRunCode ==
  /\ isMounted
  /\ editableCode # NoCode
  /\ generatedCode' = editableCode
  /\ UNCHANGED << reduceVars, uploaderVars, previewVars, launcherVars, apiKey, isMounted, serverCheck, userQuery,
                  userData, sampleData, dataSummary, editableCode,
                  isLoading, error, selectedChartType, dataLimit, insights,
                  additionalCharts, serverStatus, geminiKeyValid, submits,
                  uploads >>

Next ==
  \/ Mount
  \/ \E isRunning \in {"true", "false"} : checkServer(isRunning)
  \/ \E value \in Queries : setUserQuery(value)
  \/ \E value \in CHART_TYPES : setSelectedChartType(value)
  \/ \E text \in LimitInputs : setDataLimit(text)
  \/ \E data \in DataNames :
       \E summary \in {NoSummary, SummaryOf(data)} :
         handleDataUpload(data, summary)
  \/ \E i \in 1..Len(uploads) : analyzeDataResolved(i)
  \/ \E i \in 1..Len(uploads) : analyzeDataRejected(i)
  \/ handleQuerySubmit
  \/ \E i \in 1..Len(submits) :
       \E res \in ProcessResults(submits[i]) : processQueryResolved(i, res)
  \/ \E i \in 1..Len(submits) : processQueryRejected(i)
  \/ \E i \in 1..Len(submits) :
       \E blank \in BOOLEAN : generateContentResolved(i, blank)
  \/ \E i \in 1..Len(submits) : generateContentRejected(i)
  \/ handleCodeEdit(TypedCode)
  \/ handleRunCode

Spec == Init /\ [][Next]_vars

(***************************************************************************)
(* The client-side playground (components/QueryPlayground.jsx).            *)
(***************************************************************************)
ErrProcessingData == "Error processing data"

\* `Failed to generate visualization: ${err.message}`, for a rejected model
\* call and for the validation's own throw
ErrFailedToGenerate == "Failed to generate visualization: model call failed"

ErrMissingElements ==
  "Failed to generate visualization: Generated code is missing essential elements"

\* aggregateData(data, maxEntries = 15)
DefaultMaxEntries == 15

\* defaultData of the mount effect
defaultData ==
  << Obj(<< Prop("name", Str("North")), Prop("value", N(4000)) >>),
     Obj(<< Prop("name", Str("South")), Prop("value", N(3000)) >>),
     Obj(<< Prop("name", Str("East")), Prop("value", N(2000)) >>),
     Obj(<< Prop("name", Str("West")), Prop("value", N(1000)) >>) >>

\* A file of sixteen rows { category, sales }: more than DefaultMaxEntries
LargeFile ==
  [i \in 1..(DefaultMaxEntries + 1) |->
     Obj(<< Prop("category", Str(IF i % 2 = 0 THEN "A" ELSE "B")),
            Prop("sales", N(i)) >>)]

\* The files the user uploads, by name, and the table each parses to.
ClientFiles ==
  {"byName", "byCount", "numbers", "labels", "empty", "nullFirst", "large"}

ClientTable(name) ==
  CASE name = "sample" -> defaultData
    [] name = "byName" ->
         << Obj(<< Prop("name", N(1)), Prop("label", Str("A")),
                   Prop("total", N(2)) >>) >>
    [] name = "byCount" ->
         << Obj(<< Prop("label", Str("A")), Prop("count", Str("B")),
                   Prop("total", N(2)) >>) >>
    [] name = "numbers" ->
         << Obj(<< Prop("x", N(1)), Prop("y", N(2)) >>),
            Obj(<< Prop("x", N(2)), Prop("y", N(5)) >>) >>
    [] name = "labels" ->
         << Obj(<< Prop("a", Str("A")), Prop("b", Str("B")) >>) >>
    [] name = "empty" -> << >>
    [] name = "nullFirst" ->
         << NullRow, Obj(<< Prop("label", Str("A")) >>) >>
    [] name = "large" -> LargeFile

\* The mutation of potentialXAxisKeys: without the clauses on the key's name
potentialXAxisKeysByType(firstItem) ==
  SelectSeq(Keys(firstItem),
            LAMBDA k : TypeOf(Get(firstItem, k)) = "string")

\* keys.filter(k => typeof firstItem[k] === 'string' || k === 'category'
\*                  || k === 'name')
potentialXAxisKeys(firstItem) ==
  SelectSeq(Keys(firstItem),
            LAMBDA k : \/ TypeOf(Get(firstItem, k)) = "string"
                       \/ k = "category"
                       \/ k = "name")

\* keys.filter(k => typeof firstItem[k] === 'number' || k === 'count'
\*                  || k === 'value')
potentialValueKeys(firstItem) ==
  SelectSeq(Keys(firstItem),
            LAMBDA k : \/ TypeOf(Get(firstItem, k)) = "number"
                       \/ k = "count"
                       \/ k = "value")

\* The mutation of xAxisKey: the key depends on whether a request came
\* earlier
xAxisKeyAfterEarlier(firstItem) ==
  IF submits = << >> /\ Len(potentialXAxisKeys(firstItem)) > 0
  THEN potentialXAxisKeys(firstItem)[1]
  ELSE "category"

xAxisKey(firstItem) ==
  IF Len(potentialXAxisKeys(firstItem)) > 0
  THEN potentialXAxisKeys(firstItem)[1]
  ELSE "category"

valueKey(firstItem) ==
  IF Len(potentialValueKeys(firstItem)) > 0
  THEN potentialValueKeys(firstItem)[1]
  ELSE "count"

InitClient ==
  /\ ReducerIdle
  /\ UploaderConstructed
  /\ PreviewIdle
  /\ LauncherIdle
  /\ apiKey = "set"
  /\ sampleData = "null"
  /\ Constructed(10)

\* useEffect(() => {...}, []): the component renders null until it ran
ClientMount ==
  /\ ~isMounted
  /\ isMounted' = TRUE
  /\ sampleData' = "sample"
  /\ userData' = "sample"
  /\ UNCHANGED << reduceVars, uploaderVars, previewVars, launcherVars, apiKey, serverCheck, userQuery, dataSummary,
                  generatedCode, editableCode, isLoading, error,
                  selectedChartType, dataLimit, insights, additionalCharts,
                  serverStatus, geminiKeyValid, submits, uploads >>

\* textarea onChange={e => setUserQuery(e.target.value)}
ClientSetUserQuery(value) ==
  /\ isMounted
  /\ value # userQuery
  /\ userQuery' = value
  /\ UNCHANGED << reduceVars, uploaderVars, previewVars, launcherVars, apiKey, isMounted, serverCheck, userData,
                  sampleData, dataSummary, generatedCode, editableCode,
                  isLoading, error, selectedChartType, dataLimit, insights,
                  additionalCharts, serverStatus, geminiKeyValid, submits,
                  uploads >>

\* The positions of the range input the model lets the user pick
\* (min 10, max 100, step 10).
SliderValues == {10, 20}

\* input type="range" onChange={(e) => setDataLimit(Number(e.target.value))}
ClientSetDataLimit(value) ==
  /\ isMounted
  /\ value # dataLimit
  /\ dataLimit' = value
  /\ UNCHANGED << reduceVars, uploaderVars, previewVars, launcherVars, apiKey, isMounted, serverCheck, userQuery,
                  userData, sampleData, dataSummary, generatedCode,
                  editableCode, isLoading, error, selectedChartType,
                  insights, additionalCharts, serverStatus, geminiKeyValid,
                  submits, uploads >>

\* handleDataUpload(data)
ClientHandleDataUpload(data) ==
  /\ isMounted
  /\ userData' = data
  /\ IF generatedCode # NoCode
     THEN generatedCode' = NoCode /\ editableCode' = NoCode
     ELSE UNCHANGED << generatedCode, editableCode >>
  /\ UNCHANGED << reduceVars, uploaderVars, previewVars, launcherVars, apiKey, isMounted, serverCheck, userQuery,
                  sampleData, dataSummary, isLoading, error,
                  selectedChartType, dataLimit, insights, additionalCharts,
                  serverStatus, geminiKeyValid, submits, uploads >>

\* select onChange={(e) => setSelectedChartType(e.target.value)}
ClientSetSelectedChartType(value) ==
  /\ isMounted
  /\ value # selectedChartType
  /\ selectedChartType' = value
  /\ UNCHANGED << reduceVars, uploaderVars, previewVars, launcherVars, apiKey, isMounted, serverCheck, userQuery,
                  userData, sampleData, dataSummary, generatedCode,
                  editableCode, isLoading, error, dataLimit, insights,
                  additionalCharts, serverStatus, geminiKeyValid, submits,
                  uploads >>

\* A client-side submission suspended at await model.generateContent(prompt):
\* what the prompt was built from.
ClientSubmission(rawData, aggregatedData) ==
  [pc |-> "generateContent", data |-> rawData,
   aggregatedData |-> aggregatedData, query |-> userQuery,
   chartType |-> selectedChartType, dataLimit |-> dataLimit,
   xAxisKey |-> xAxisKey(aggregatedData[1]),
   valueKey |-> valueKey(aggregatedData[1])]

\* handleQuerySubmit up to await model.generateContent(prompt), or through
\* the outer catch and finally when building the prompt throws.  genAI is
\* never null where the handler runs (typeof window !== 'undefined'); the
\* Generate button is disabled while isLoading.
ClientHandleQuerySubmit ==
  /\ isMounted
  /\ ~isLoading
  /\ LET rawData == IF userData # "null" THEN userData ELSE sampleData
     IN \E outcome \in aggregateData(ClientTable(rawData), DefaultMaxEntries) :
          LET aggregatedData == Slice(outcome.rows, dataLimit)
              \* aggregateData threw, or Object.keys(aggregatedData[0]) does
              throws == \/ outcome.threw
                        \/ aggregatedData = << >>
                        \/ ~aggregatedData[1].obj
          IN IF throws
             THEN /\ error' = ErrProcessingData
                  /\ UNCHANGED << isLoading, submits >>
             ELSE /\ isLoading' = TRUE
                  /\ error' = "null"
                  /\ submits' =
                       Append(submits,
                              ClientSubmission(rawData, aggregatedData))
  /\ UNCHANGED << reduceVars, uploaderVars, previewVars, launcherVars, apiKey, isMounted, serverCheck, userQuery,
                  userData, sampleData, dataSummary, generatedCode,
                  editableCode, selectedChartType, dataLimit, insights,
                  additionalCharts, serverStatus, geminiKeyValid, uploads >>

\* The mutation of ClientGenerateContentResolved: the cleaned text is
\* assigned without the validation
ClientGenerateContentResolvedUnvalidated(i, parts) ==
  /\ i \in 1..Len(submits)
  /\ generatedCode' = GeneratedCodeFor(Uploaded(submits[i].data), parts)
  /\ editableCode' = GeneratedCodeFor(Uploaded(submits[i].data), parts)
  /\ isLoading' = FALSE
  /\ submits' = Without(submits, i)
  /\ UNCHANGED << reduceVars, uploaderVars, previewVars, launcherVars, apiKey, isMounted, serverCheck, userQuery,
                  userData, sampleData, dataSummary, error, selectedChartType,
                  dataLimit, insights, additionalCharts, serverStatus,
                  geminiKeyValid, uploads >>

\* handleQuerySubmit after await model.generateContent(prompt) resolved:
\* parts are the substrings the cleaned text holds among those the
\* validation looks for
ClientGenerateContentResolved(i, parts) ==
  /\ i \in 1..Len(submits)
  /\ IF parts = CodeParts
     THEN /\ generatedCode' =
               GeneratedCodeFor(Uploaded(submits[i].data), parts)
          /\ editableCode' =
               GeneratedCodeFor(Uploaded(submits[i].data), parts)
          /\ UNCHANGED error
     ELSE /\ error' = ErrMissingElements
          /\ UNCHANGED << generatedCode, editableCode >>
  /\ isLoading' = FALSE
  /\ submits' = Without(submits, i)
  /\ UNCHANGED << reduceVars, uploaderVars, previewVars, launcherVars, apiKey, isMounted, serverCheck, userQuery,
                  userData, sampleData, dataSummary, selectedChartType,
                  dataLimit, insights, additionalCharts, serverStatus,
                  geminiKeyValid, uploads >>

\* handleQuerySubmit after await model.generateContent(prompt) rejected
ClientGenerateContentRejected(i) ==
  /\ i \in 1..Len(submits)
  /\ error' = ErrFailedToGenerate
  /\ isLoading' = FALSE
  /\ submits' = Without(submits, i)
  /\ UNCHANGED << reduceVars, uploaderVars, previewVars, launcherVars, apiKey, isMounted, serverCheck, userQuery,
                  userData, sampleData, dataSummary, generatedCode,
                  editableCode, selectedChartType, dataLimit, insights,
                  additionalCharts, serverStatus, geminiKeyValid, uploads >>

\* textarea onChange={e => handleCodeChange(e.target.value)}
ClientHandleCodeChange(newCode) ==
  /\ isMounted
  /\ newCode # editableCode
  /\ editableCode' = newCode
  /\ UNCHANGED << reduceVars, uploaderVars, previewVars, launcherVars, apiKey, isMounted, serverCheck, userQuery,
                  userData, sampleData, dataSummary, generatedCode,
                  isLoading, error, selectedChartType, dataLimit, insights,
                  additionalCharts, serverStatus, geminiKeyValid, submits,
                  uploads >>

\* Run Code (never disabled)
ClientHandleRunCode ==
  /\ isMounted
  /\ generatedCode' = editableCode
  /\ UNCHANGED << reduceVars, uploaderVars, previewVars, launcherVars, apiKey, isMounted, serverCheck, userQuery,
                  userData, sampleData, dataSummary, editableCode,
                  isLoading, error, selectedChartType, dataLimit, insights,
                  additionalCharts, serverStatus, geminiKeyValid, submits,
                  uploads >>

NextClient ==
  \/ ClientMount
  \/ \E value \in Queries : ClientSetUserQuery(value)
  \/ \E value \in CHART_TYPES : ClientSetSelectedChartType(value)
  \/ \E value \in SliderValues : ClientSetDataLimit(value)
  \/ \E data \in ClientFiles \cup {"sample"} : ClientHandleDataUpload(data)
  \/ ClientHandleQuerySubmit
  \/ \E i \in 1..Len(submits) :
       \E parts \in SUBSET CodeParts : ClientGenerateContentResolved(i, parts)
  \/ \E i \in 1..Len(submits) : ClientGenerateContentRejected(i)
  \/ \E newCode \in {NoCode, TypedCode} : ClientHandleCodeChange(newCode)
  \/ ClientHandleRunCode

SpecClient == InitClient /\ [][NextClient]_vars

(***************************************************************************)
(* Properties of the playgrounds.                                          *)
(***************************************************************************)
\* The two fatal error kinds of the propagation policy.
FatalKinds == {"EmptyTableError", "UnsupportedFormatError"}

\* C8 (as stated): with the API key set, a request either succeeds or fails
\* with one of exactly two fatal kinds (empty table, unsupported format):
\* error never holds anything else; and a rejected processQuery leaves error
\* unset while the submission proceeds to code generation.
C8_OnlyTwoFatalKinds ==
  /\ apiKey = "set" => error \in {"null"} \cup FatalKinds
  /\ \A i \in 1..Len(submits) :
       submits[i].backend = "rejected" =>
         submits[i].pc = "generateContent" /\ error = "null"

\* C8 (amended): a backend failure is not surfaced.  While a submission that
\* passed the preconditions awaits the backend or the code generator, error
\* is null; when processQuery was rejected or the backend is not available,
\* the submission is at code generation with the original table and the
\* selected chart type.  The errors the playground does surface are the
\* precondition message (blank query or no data), the missing API key and a
\* failed code generation; "Error processing query" is never set.
C8_BackendFailureNotSurfaced ==
  /\ \A i \in 1..Len(submits) :
       /\ error = "null"
       /\ submits[i].backend \in {"rejected", "down"} =>
            /\ submits[i].pc = "generateContent"
            /\ submits[i].processedData = Uploaded(submits[i].data)
            /\ submits[i].suggestedVisualization = submits[i].chartType
  /\ error \in {"null", ErrQueryAndData, ErrGeminiKey, ErrGeneratingCode}

\* C8 witness: a submission whose processQuery was rejected waits for the
\* code generator, with no error shown.
C8_Witness ==
  \E i \in 1..Len(submits) :
    /\ submits[i].backend = "rejected"
    /\ submits[i].pc = "generateContent"
    /\ error = "null"

\* C9: an empty or whitespace-only query is never rejected as an error (with
\* data loaded and the API key valid, the blank-query message is not shown),
\* and every submission of a blank query goes to the code generator as a
\* BarChart.
C9_BlankQueryDefaultsToBarChart ==
  /\ (Trim(userQuery) = << >> /\ userData # "null" /\ geminiKeyValid
      /\ uploads = << >>)
       => error # ErrQueryAndData
  /\ \A i \in 1..Len(submits) :
       Trim(submits[i].query) = << >> =>
         submits[i].suggestedVisualization = "BarChart"

\* The columns of a table that are not numeric, in column order.
NonNumericColumns(data) ==
  SelectSeq(Keys(data[1]), LAMBDA col : ~ColumnIsNumeric(data, col))

\* C10 (as stated): the x-axis column handed to the code generator is the
\* first non-numeric column in column order and the value column is the
\* first numeric column in column order; a numeric column is never the
\* x-axis and a non-numeric column never the value column.
C10_FirstColumnsByType ==
  \A i \in 1..Len(submits) :
    LET data == submits[i].aggregatedData
    IN /\ Len(NonNumericColumns(data)) > 0 =>
            submits[i].xAxisKey = NonNumericColumns(data)[1]
       /\ Len(NumericColumns(data)) > 0 =>
            submits[i].valueKey = NumericColumns(data)[1]
       /\ submits[i].xAxisKey \in KeySet(data[1]) =>
            ~ColumnIsNumeric(data, submits[i].xAxisKey)
       /\ submits[i].valueKey \in KeySet(data[1]) =>
            ColumnIsNumeric(data, submits[i].valueKey)

\* The least element of a non-empty set of positions.
Least(positions) == CHOOSE i \in positions : \A j \in positions : i <= j

\* C10 (amended): in the client-side playground, whatever the query, the
\* x-axis key in the prompt is the first key of the first row of the reduced
\* table whose value there is a string or whose name is category or name
\* (even when its values are numbers), or "category" when there is none;
\* the value key is the first key whose value there is a number or whose
\* name is count or value (even when its values are strings), or "count"
\* when there is none.
C10_KeysByTypeOrName ==
  \A i \in 1..Len(submits) :
    LET firstItem == submits[i].aggregatedData[1]
        keys == Keys(firstItem)
        xs == {k \in 1..Len(keys) :
                 \/ Get(firstItem, keys[k]).t = "str"
                 \/ keys[k] \in {"category", "name"}}
        vs == {k \in 1..Len(keys) :
                 \/ Get(firstItem, keys[k]).t \in {"num", "nan"}
                 \/ keys[k] \in {"count", "value"}}
    IN /\ submits[i].xAxisKey =
            IF xs = {} THEN "category" ELSE keys[Least(xs)]
       /\ submits[i].valueKey =
            IF vs = {} THEN "count" ELSE keys[Least(vs)]

\* C10 witness: a submission waits for the code generator with a prompt
\* that names the numeric column "name" as x-axis.
C10_Witness ==
  \E i \in 1..Len(submits) :
    /\ submits[i].data = "byName"
    /\ submits[i].xAxisKey = "name"
    /\ ColumnIsNumeric(submits[i].aggregatedData, "name")

(***************************************************************************)
(* Interpretation runs of the client-side playground: the prompt-building  *)
(* segment of handleQuerySubmit applied again and again to one table and   *)
(* one query, with the chart type and the data limit changed in between.   *)
(* submits keeps the prompt of every run.                                  *)
(***************************************************************************)
\* The number of runs that are compared.
MaxRuns == 2

InitInterpret ==
  /\ ReducerIdle
  /\ UploaderConstructed
  /\ PreviewIdle
  /\ LauncherIdle
  /\ apiKey = "set"
  /\ sampleData = "sample"
  /\ isMounted = TRUE
  /\ serverCheck = "idle"
  /\ userQuery \in Queries
  /\ userData \in ClientFiles \cup {"sample"}
  /\ dataSummary = NoSummary
  /\ generatedCode = NoCode
  /\ editableCode = NoCode
  /\ isLoading = FALSE
  /\ error = "null"
  /\ selectedChartType = "BarChart"
  /\ dataLimit = 10
  /\ insights = "none"
  /\ additionalCharts = "none"
  /\ serverStatus = "null"
  /\ geminiKeyValid = TRUE
  /\ submits = << >>
  /\ uploads = << >>

\* One run of handleQuerySubmit from its start to the prompt (or to the
\* outer catch), the pending model call left aside
Interpret ==
  /\ Len(submits) < MaxRuns
  /\ \E outcome \in aggregateData(ClientTable(userData), DefaultMaxEntries) :
       LET aggregatedData == Slice(outcome.rows, dataLimit)
           throws == \/ outcome.threw
                     \/ aggregatedData = << >>
                     \/ ~aggregatedData[1].obj
       IN IF throws
          THEN /\ error' = ErrProcessingData
               /\ UNCHANGED submits
          ELSE /\ error' = "null"
               /\ submits' =
                    Append(submits,
                           ClientSubmission(userData, aggregatedData))
  /\ UNCHANGED << reduceVars, uploaderVars, previewVars, launcherVars, apiKey, isMounted, serverCheck, userQuery,
                  userData, sampleData, dataSummary, generatedCode,
                  editableCode, isLoading, selectedChartType, dataLimit,
                  insights, additionalCharts, serverStatus, geminiKeyValid,
                  uploads >>

NextInterpret ==
  \/ \E value \in CHART_TYPES : ClientSetSelectedChartType(value)
  \/ \E value \in SliderValues : ClientSetDataLimit(value)
  \/ Interpret

SpecInterpret == InitInterpret /\ [][NextInterpret]_vars

C12_HandedToGenerator ==
  \A i \in 1..Len(submits) :
    submits[i].pc = "generateContent" =>
      IF submits[i].backend = "ok"
      THEN /\ submits[i].processedData = ProcessedData(submits[i].data)
           /\ submits[i].suggestedVisualization =
                IF submits[i].answered # "" THEN submits[i].answered
                ELSE submits[i].chartType
      ELSE /\ submits[i].backend \in {"rejected", "down"}
           /\ submits[i].processedData = Uploaded(submits[i].data)
           /\ submits[i].suggestedVisualization = submits[i].chartType

\* C12 witness: a submission waits for the code generator with the backend's
\* processed_data and a suggested chart type that is not the selected one.
C12_Witness ==
  \E i \in 1..Len(submits) :
    /\ submits[i].pc = "generateContent"
    /\ submits[i].backend = "ok"
    /\ submits[i].processedData = ProcessedData(submits[i].data)
    /\ submits[i].suggestedVisualization = "LineChart"
    /\ submits[i].chartType = "PieChart"

(***************************************************************************)
(* The DataUploader that uploads to the backend (the second component of   *)
(* components/DataUploader.jsx), with a parent that records what it is     *)
(* handed.                                                                 *)
(***************************************************************************)
ErrNotRunning ==
  "Backend server is not running. Please start the server and try again."

ErrUnsupported ==
  "Unsupported file format. Please upload a CSV or JSON file."

ErrUploadFailed == "Failed to upload file"

\* The most onDataUpload calls the parent records.
MaxDelivered == 2

\* checkServerStatus (services/api.js): fetch resolves with response.ok
\* true or false, or rejects; the catch returns false.
FetchOutcomes == {"ok", "notOk", "failed"}

checkServerStatus(fetchOutcome) ==
  IF fetchOutcome = "ok" THEN "true" ELSE "false"

\* The files the user selects: file.name ends in .csv, .json or neither.
UploadFiles == {"data.csv", "data.json", "notes.txt"}

EndsWith(name, ext) ==
  \/ ext = ".csv" /\ name = "data.csv"
  \/ ext = ".json" /\ name \in {"data.json", "broken.json"}

\* A call that has not settled yet: its kind, its file, and the
\* serverStatus the handler saw when it started it.
Load(kind, file) ==
  [kind |-> kind, file |-> file, sentWhen |-> upServerStatus]

\* One onDataUpload(data, summary) call as the parent records it
Delivery(file, summary, sentWhen) ==
  [file |-> file, summary |-> summary, sentWhen |-> sentWhen]

InitUploader ==
  /\ ReducerIdle
  /\ apiKey = "set"
  /\ sampleData = "sample"
  /\ Constructed(50)
  /\ UploaderConstructed
  /\ PreviewIdle
  /\ LauncherIdle

\* useEffect(() => { checkServer(); }, [])
UploaderMount ==
  /\ upCheck = "idle"
  /\ upCheck' = "pending"
  /\ UNCHANGED << reduceVars, playVars, previewVars, launcherVars, upServerStatus, upError, upIsLoading,
                  successMessage, fileName, loads, delivered >>

\* checkServer after await checkServerStatus(): the call never rejects
UploaderCheckServer(fetchOutcome) ==
  /\ upCheck = "pending"
  /\ upCheck' = "done"
  /\ upServerStatus' = checkServerStatus(fetchOutcome)
  /\ IF checkServerStatus(fetchOutcome) # "true"
     THEN upError' = ErrNotRunning
     ELSE UNCHANGED upError
  /\ UNCHANGED << reduceVars, playVars, previewVars, launcherVars, upIsLoading, successMessage,
                  fileName, loads, delivered >>

\* The mutation of UploaderHandleFileUpload: the input is not disabled by
\* serverStatus and the handler does not test it
UploaderHandleFileUploadUngated(file) ==
  /\ upCheck # "idle"
  /\ ~upIsLoading
  /\ successMessage' = ""
  /\ fileName' = file
  /\ IF EndsWith(file, ".csv") \/ EndsWith(file, ".json")
     THEN /\ upIsLoading' = TRUE
          /\ upError' = "null"
          /\ loads' = Append(loads, Load("upload", file))
     ELSE /\ upIsLoading' = FALSE
          /\ upError' = ErrUnsupported
          /\ UNCHANGED loads
  /\ UNCHANGED << reduceVars, playVars, previewVars, launcherVars, upCheck, upServerStatus, delivered >>

\* handleFileUpload up to await uploadCSV/uploadJSON, or through its catch
\* and finally; the input is disabled={isLoading || serverStatus === false}
UploaderHandleFileUpload(file) ==
  /\ upCheck # "idle"
  /\ ~(upIsLoading \/ upServerStatus = "false")
  /\ successMessage' = ""
  /\ fileName' = file
  /\ IF upServerStatus = "false"
     THEN /\ upIsLoading' = FALSE
          /\ upError' = ErrNotRunning
          /\ UNCHANGED loads
     ELSE IF EndsWith(file, ".csv") \/ EndsWith(file, ".json")
          THEN /\ upIsLoading' = TRUE
               /\ upError' = "null"
               /\ loads' = Append(loads, Load("upload", file))
          ELSE /\ upIsLoading' = FALSE
               /\ upError' = ErrUnsupported
               /\ UNCHANGED loads
  /\ UNCHANGED << reduceVars, playVars, previewVars, launcherVars, upCheck, upServerStatus, delivered >>

\* handleFileUpload after the upload resolved with { data, summary }
UploaderUploadResolved(i, summary) ==
  /\ i \in 1..Len(loads)
  /\ Len(delivered) < MaxDelivered
  /\ delivered' =
       Append(delivered, Delivery(loads[i].file, summary, loads[i].sentWhen))
  /\ successMessage' = "Successfully loaded"
  /\ upIsLoading' = FALSE
  /\ loads' = Without(loads, i)
  /\ UNCHANGED << reduceVars, playVars, previewVars, launcherVars, upCheck, upServerStatus, upError,
                  fileName >>

\* handleFileUpload after the upload rejected (or resolved to null, so that
\* result.data throws)
UploaderUploadRejected(i) ==
  /\ i \in 1..Len(loads)
  /\ upError' = ErrUploadFailed
  /\ upIsLoading' = FALSE
  /\ loads' = Without(loads, i)
  /\ UNCHANGED << reduceVars, playVars, previewVars, launcherVars, upCheck, upServerStatus,
                  successMessage, fileName, delivered >>

\* useSampleData: the button is disabled={isLoading || !sampleData}
UploaderUseSampleData ==
  /\ upCheck # "idle"
  /\ ~upIsLoading
  /\ sampleData # "null"
  /\ Len(delivered) < MaxDelivered
  /\ delivered' = Append(delivered, Delivery(sampleData, FALSE, upServerStatus))
  /\ successMessage' = "Successfully loaded sample data"
  /\ fileName' = "sample-data.json"
  /\ upError' = "null"
  /\ upIsLoading' = FALSE
  /\ UNCHANGED << reduceVars, playVars, previewVars, launcherVars, upCheck, upServerStatus, loads >>

NextUploader ==
  \/ UploaderMount
  \/ \E fetchOutcome \in FetchOutcomes : UploaderCheckServer(fetchOutcome)
  \/ \E file \in UploadFiles : UploaderHandleFileUpload(file)
  \/ \E i \in 1..Len(loads) :
       \E summary \in BOOLEAN : UploaderUploadResolved(i, summary)
  \/ \E i \in 1..Len(loads) : UploaderUploadRejected(i)
  \/ UploaderUseSampleData

SpecUploader == InitUploader /\ [][NextUploader]_vars

MaxColumns == 2

MaxLines == 2

\* The cells a line is made of, and cell.trim() of each.
HeaderCells == {"a", " b ", "__proto__"}

DataCells == {"1", "x", ""}

TrimCell(cell) == IF cell = " b " THEN "b" ELSE cell

\* lines[i].trim() is empty: the line holds no comma and only white space
IsBlankLine(line) == Len(line) = 1 /\ TrimCell(line[1]) = ""

\* entry[header] = value: assigning a primitive to __proto__ runs the
\* inherited setter, which ignores it and creates no property
Assign(entry, header, value) ==
  IF header = "__proto__" THEN entry ELSE Put(entry, header, value)

\* headers.forEach((header, index) => { entry[header] = isNaN(value) ?
\* value : Number(value) }) with value = values[index], from index on
RECURSIVE ParseLine(_, _, _, _)
ParseLine(headers, values, index, entry) ==
  IF index > Len(headers) THEN entry
  ELSE LET value == IF index <= Len(values)
                    THEN Str(TrimCell(values[index]))
                    ELSE Undefined
           stored == IF IsNaNValue(value) THEN value ELSE ToNumber(value)
       IN ParseLine(headers, values, index + 1,
                    Assign(entry, headers[index], stored))

\* The rows of lines i.. of the text
RECURSIVE ParseLines(_, _, _)
ParseLines(headers, lines, i) ==
  IF i > Len(lines) THEN << >>
  ELSE IF IsBlankLine(lines[i]) THEN ParseLines(headers, lines, i + 1)
       ELSE << ParseLine(headers, lines[i], 1, Obj(<< >>)) >>
            \o ParseLines(headers, lines, i + 1)

\* parseCSV(text)
parseCSV(lines) ==
  LET headers == [k \in 1..Len(lines[1]) |-> TrimCell(lines[1][k])]
  IN ParseLines(headers, lines, 2)

\* The texts parseCSV is applied to
LinesOf(cells, most) == UNION {[1..n -> cells] : n \in 1..most}

Texts ==
  {<< header >> \o rest :
     header \in LinesOf(HeaderCells, MaxColumns),
     rest \in UNION {[1..n -> LinesOf(DataCells, MaxColumns + 1)] :
                       n \in 0..MaxLines}}

InitParse ==
  /\ inTable \in Texts
  /\ inMaxRows = 1
  /\ result = NoResult
  /\ result2 = NoResult
  /\ phase = "input"
  /\ apiKey = "set"
  /\ sampleData = "sample"
  /\ Constructed(10)
  /\ UploaderConstructed
  /\ PreviewIdle
  /\ LauncherIdle

\* const data = parseCSV(text)
Parse ==
  /\ phase = "input"
  /\ result' = Returned(parseCSV(inTable), "parseCSV")
  /\ phase' = "parsed"
  /\ UNCHANGED << inTable, inMaxRows, result2, playVars, uploaderVars, previewVars, launcherVars >>

NextParse == Parse

SpecParse == InitParse /\ [][NextParse]_vars

\* C16: every row parseCSV produces has exactly the header line's column
\* names as its key set, whatever the data lines hold (fewer or more cells
\* than the header, empty cells; blank lines produce no row), so all rows
\* share one column set.
C16_RowsHaveHeaderKeys ==
  phase = "parsed" =>
    LET names == {TrimCell(inTable[1][k]) : k \in 1..Len(inTable[1])}
        dataLines == {i \in 2..Len(inTable) : ~IsBlankLine(inTable[i])}
    IN /\ Len(result.rows) = Cardinality(dataLines)
       /\ \A r \in 1..Len(result.rows) : KeySet(result.rows[r]) = names

(***************************************************************************)
(* The client-side DataUploader (the first component of                    *)
(* components/DataUploader.jsx): files are read with a FileReader and      *)
(* parsed in the browser, the sample data arrives after a 300 ms timer.    *)
(***************************************************************************)
ErrParse == "Failed to parse the file. Please check the format."

ErrReading == "Error reading file"

\* The most file reads and timers that are pending at once.
MaxReads == 2

\* The files the user selects; broken.json holds text JSON.parse throws on.
ReadFiles == {"data.csv", "data.json", "broken.json", "notes.txt"}

JSONParseThrows(file) == file = "broken.json"

\* The text of data.csv
CsvText == << << "a", " b " >>, << "1", "x" >>, << "" >>, << "x" >> >>

InitClientUploader ==
  /\ ReducerIdle
  /\ apiKey = "set"
  /\ sampleData = "sample"
  /\ Constructed(10)
  /\ UploaderConstructed
  /\ PreviewIdle
  /\ LauncherIdle

\* handleFileUpload up to reader.readAsText(file); the input is never
\* disabled
ClientUploaderHandleFileUpload(file) ==
  /\ Len(loads) < MaxReads
  /\ upIsLoading' = TRUE
  /\ upError' = "null"
  /\ successMessage' = ""
  /\ fileName' = file
  /\ loads' = Append(loads, Load("read", file))
  /\ UNCHANGED << reduceVars, playVars, previewVars, launcherVars, upCheck, upServerStatus, delivered >>

\* The mutation of ReaderOnLoad: the parsed or unparsed text is handed on
\* whatever the file
ReaderOnLoadUnchecked(i) ==
  /\ i \in 1..Len(loads)
  /\ loads[i].kind = "read"
  /\ Len(delivered) < MaxDelivered
  /\ delivered' =
       Append(delivered, Delivery(loads[i].file, FALSE, loads[i].sentWhen))
  /\ upError' = "null"
  /\ successMessage' = "Successfully loaded"
  /\ upIsLoading' = FALSE
  /\ loads' = Without(loads, i)
  /\ UNCHANGED << reduceVars, playVars, previewVars, launcherVars, upCheck, upServerStatus, fileName >>

\* reader.onload: parse by the file's name, hand the table on, or set the
\* error; finally setIsLoading(false)
ReaderOnLoad(i) ==
  /\ i \in 1..Len(loads)
  /\ loads[i].kind = "read"
  /\ LET file == loads[i].file
         parsed == \/ EndsWith(file, ".csv") /\ Len(parseCSV(CsvText)) >= 0
                   \/ EndsWith(file, ".json") /\ ~JSONParseThrows(file)
     IN IF parsed
        THEN /\ Len(delivered) < MaxDelivered
             /\ delivered' =
                  Append(delivered, Delivery(file, FALSE, loads[i].sentWhen))
             /\ upError' = "null"
             /\ successMessage' = "Successfully loaded"
        ELSE /\ upError' = IF EndsWith(file, ".json") THEN ErrParse
                           ELSE ErrUnsupported
             /\ UNCHANGED << delivered, successMessage >>
  /\ upIsLoading' = FALSE
  /\ loads' = Without(loads, i)
  /\ UNCHANGED << reduceVars, playVars, previewVars, launcherVars, upCheck, upServerStatus, fileName >>

\* reader.onerror
ReaderOnError(i) ==
  /\ i \in 1..Len(loads)
  /\ loads[i].kind = "read"
  /\ upError' = ErrReading
  /\ upIsLoading' = FALSE
  /\ loads' = Without(loads, i)
  /\ UNCHANGED << reduceVars, playVars, previewVars, launcherVars, upCheck, upServerStatus,
                  successMessage, fileName, delivered >>

\* useSampleData up to setTimeout(..., 300); the button is
\* disabled={isLoading}
ClientUploaderUseSampleData ==
  /\ ~upIsLoading
  /\ Len(loads) < MaxReads
  /\ upIsLoading' = TRUE
  /\ upError' = "null"
  /\ successMessage' = ""
  /\ fileName' = ""
  /\ loads' = Append(loads, Load("timer", sampleData))
  /\ UNCHANGED << reduceVars, playVars, previewVars, launcherVars, upCheck, upServerStatus, delivered >>

\* The timer's callback: onDataUpload(sampleData) with the sampleData of
\* the render the button was clicked in
SampleTimerFired(i) ==
  /\ i \in 1..Len(loads)
  /\ loads[i].kind = "timer"
  /\ Len(delivered) < MaxDelivered
  /\ delivered' =
       Append(delivered, Delivery(loads[i].file, FALSE, loads[i].sentWhen))
  /\ successMessage' = "Sample data loaded successfully"
  /\ upIsLoading' = FALSE
  /\ loads' = Without(loads, i)
  /\ UNCHANGED << reduceVars, playVars, previewVars, launcherVars, upCheck, upServerStatus, upError,
                  fileName >>

NextClientUploader ==
  \/ \E file \in ReadFiles : ClientUploaderHandleFileUpload(file)
  \/ \E i \in 1..Len(loads) : ReaderOnLoad(i)
  \/ \E i \in 1..Len(loads) : ReaderOnError(i)
  \/ ClientUploaderUseSampleData
  \/ \E i \in 1..Len(loads) : SampleTimerFired(i)

SpecClientUploader == InitClientUploader /\ [][NextClientUploader]_vars

\* A file the client uploader cannot turn into a table: its name ends in
\* neither .csv nor .json, or its JSON text does not parse.
BadFile(file) ==
  /\ file \in ReadFiles
  /\ \/ ~EndsWith(file, ".csv") /\ ~EndsWith(file, ".json")
     \/ EndsWith(file, ".json") /\ JSONParseThrows(file)

\* C14: a read of an unsupported or malformed file ends with an error
\* message set, isLoading false and nothing handed to onDataUpload, and no
\* table ever handed on comes from such a file.
C14_BadFileEndsInError ==
  /\ [][\A i \in 1..Len(loads) :
          (/\ loads[i].kind = "read"
           /\ BadFile(loads[i].file)
           /\ loads' = Without(loads, i))
          => (/\ upError' # "null"
              /\ ~upIsLoading'
              /\ delivered' = delivered)]_vars
  /\ [](\A d \in 1..Len(delivered) : ~BadFile(delivered[d].file))

\* C14 witness: the read of the malformed broken.json has ended; the parse
\* error is shown, nothing is loading and nothing was handed on.
C14_Witness ==
  /\ fileName = "broken.json"
  /\ upError = ErrParse
  /\ ~upIsLoading
  /\ loads = << >>
  /\ delivered = << >>

\* C15: dataLimit is 50 until the playground is mounted and an integer of 5
\* or more in every state, and the step that sends a Process-with-query
\* request sends the table, the query and the dataLimit of that moment.
C15_RequestCarriesClampedLimit ==
  /\ [](/\ dataLimit \in Int
        /\ dataLimit >= 5
        /\ ~isMounted => dataLimit = 50)
  /\ [][(/\ Len(submits') = Len(submits) + 1
         /\ submits'[Len(submits')].pc = "processQuery")
        => LET request == submits'[Len(submits')]
           IN /\ request.data = userData
              /\ request.query = userQuery
              /\ request.maxPoints = dataLimit
              /\ request.maxPoints >= 5]_vars

\* C15 witness: after a negative number was typed the limit is 5, and a
\* request carrying max_points = 5 is in flight.
C15_Witness ==
  /\ dataLimit = 5
  /\ \E i \in 1..Len(submits) :
       /\ submits[i].pc = "processQuery"
       /\ submits[i].maxPoints = 5
       /\ submits[i].data = userData
       /\ submits[i].query = userQuery

(***************************************************************************)
(* ChartPreview (components/ChartPreview.jsx): the playground renders one  *)
(* for the main chart, with the editable code, and one per additional      *)
(* chart, with chartType, data and autoGenerate.                           *)
(***************************************************************************)
\* The chart types of README.md's feature list, as the names of
\* CHART_TEMPLATES
TemplateTypes ==
  {"BarChart", "LineChart", "PieChart", "ScatterChart", "AreaChart",
   "HeatmapChart"}

\* The data props: undefined, or one of three tables
PreviewData == {"undefined", "sales", "points", "empty"}

PreviewTable(name) ==
  CASE name = "sales" ->
         << Obj(<< Prop("name", Str("A")), Prop("value", N(1)) >>),
            Obj(<< Prop("name", Str("B")), Prop("value", N(2)) >>) >>
    [] name = "points" ->
         << Obj(<< Prop("x", N(1)), Prop("y", N(2)) >>),
            Obj(<< Prop("x", N(2)), Prop("y", N(5)) >>) >>
    [] OTHER -> << >>

\* The code props: a code is the set of chart names it includes, no code
\* is the empty set
PreviewCodes == {{}, {"LineChart"}, {"PieChart", "ScatterChart"}}

PreviewProps ==
  [chartType : TemplateTypes \cup {""}, data : PreviewData,
   autoGenerate : BOOLEAN, code : PreviewCodes]

\* "Determine chart type" in the first effect
DetectedType(code) ==
  IF "BarChart" \in code THEN "BarChart"
  ELSE IF "LineChart" \in code THEN "LineChart"
  ELSE IF "AreaChart" \in code THEN "AreaChart"
  ELSE IF "PieChart" \in code THEN "PieChart"
  ELSE IF "ScatterChart" \in code THEN "ScatterChart"
  ELSE IF "RadarChart" \in code THEN "RadarChart"
  ELSE IF "ComposedChart" \in code THEN "ComposedChart"
  ELSE "BarChart"

\* parseFloat(v): unlike Number, the empty string is NaN
ParseFloat(v) ==
  CASE v.t = "num" -> v
    [] v.t = "str" -> IF v.s \in DOMAIN DecimalLiterals
                      THEN N(DecimalLiterals[v.s])
                      ELSE NaN
    [] OTHER -> NaN

FirstItem(data) ==
  IF Len(data) > 0 /\ data[1].obj THEN data[1] ELSE Obj(<< >>)

numericKeys(data) ==
  SelectSeq(Keys(FirstItem(data)),
            LAMBDA key : \/ TypeOf(Get(FirstItem(data), key)) = "number"
                         \/ ParseFloat(Get(FirstItem(data), key)).t # "nan")

categoryKeys(data) ==
  SelectSeq(Keys(FirstItem(data)),
            LAMBDA key : \/ TypeOf(Get(FirstItem(data), key)) = "string"
                         \/ key \in {"name", "category", "column1", "column2"})

\* keys[0] || fallback
FirstOr(keys, fallback) == IF Len(keys) > 0 THEN keys[1] ELSE fallback

Template(name, keys) == [template |-> name, keys |-> keys]

\* The code passed in the code prop, used as it is
Provided(code) == [template |-> "code", keys |-> << >>]

\* The auto-generated chart code for a chart type and a table: the template
\* and the keys it is called with
AutoGenerated(type, data) ==
  LET category == FirstOr(categoryKeys(data), "name")
      numeric == FirstOr(numericKeys(data), "value")
  IN IF type = "HeatmapChart" THEN Template("HeatmapChart", << >>)
     ELSE IF type = "ScatterChart" /\ Len(numericKeys(data)) >= 2
          THEN Template("ScatterChart",
                        << numericKeys(data)[1], numericKeys(data)[2] >>)
     ELSE IF type = "PieChart"
          THEN Template("PieChart", << category, numeric >>)
     ELSE IF type = "LineChart"
          THEN Template("LineChart", << category, numeric >>)
     ELSE IF type = "AreaChart"
          THEN Template("AreaChart", << category, numeric >>)
     ELSE Template("BarChart", << category, numeric >>)

InitPreview ==
  /\ ReducerIdle
  /\ apiKey = "set"
  /\ sampleData = "sample"
  /\ Constructed(50)
  /\ UploaderConstructed
  /\ LauncherIdle
  /\ previewProps \in PreviewProps
  /\ chartType = "BarChart"
  /\ chartCode = NoChartCode
  /\ effectsDue = {"code", "generate"}

\* The effects one render scheduled, run in order; both read the chartType
\* of that render, and setChartType schedules the second effect again when
\* it changes the state
PreviewRunEffects ==
  /\ effectsDue # {}
  /\ chartType' = IF "code" \in effectsDue /\ previewProps.code # {}
                  THEN DetectedType(previewProps.code)
                  ELSE chartType
  /\ chartCode' =
       IF "generate" \notin effectsDue THEN chartCode
       ELSE IF previewProps.autoGenerate /\ previewProps.data # "undefined"
            THEN AutoGenerated(chartType, PreviewTable(previewProps.data))
       ELSE IF previewProps.code # {} THEN Provided(previewProps.code)
       ELSE chartCode
  /\ effectsDue' = IF chartType' # chartType THEN {"generate"} ELSE {}
  /\ UNCHANGED << reduceVars, playVars, uploaderVars, launcherVars, previewProps >>

\* The parent renders the ChartPreview again with other props
PreviewSetProps(props) ==
  /\ effectsDue = {}
  /\ props # previewProps
  /\ previewProps' = props
  /\ effectsDue' =
       (IF props.code # previewProps.code THEN {"code", "generate"} ELSE {})
       \cup (IF \/ props.data # previewProps.data
                \/ props.autoGenerate # previewProps.autoGenerate
             THEN {"generate"} ELSE {})
  /\ UNCHANGED << reduceVars, playVars, uploaderVars, launcherVars, chartType, chartCode >>

NextPreview ==
  \/ PreviewRunEffects
  \/ \E props \in PreviewProps : PreviewSetProps(props)

SpecPreview == InitPreview /\ [][NextPreview]_vars

\* C17: once its effects have run, a ChartPreview rendered for an
\* additional chart (chartType, data, autoGenerate and no code) holds the
\* template of the chart's type as its chart code.
C17_TemplateOfType ==
  (/\ effectsDue = {}
   /\ previewProps.autoGenerate
   /\ previewProps.code = {}
   /\ previewProps.data # "undefined"
   /\ previewProps.chartType \in TemplateTypes)
  => chartCode.template = previewProps.chartType

\* C18: for a table with at least two numeric columns, no categorical and
\* no datetime column and more rows than maxRows (the code has no other
\* threshold on the row count), the reducer reports the method cluster and
\* returns exactly maxRows rows.
C18_ClusterReturnsKRows ==
  (/\ Reduced
   /\ IsTable(inTable)
   /\ Len(inTable) > inMaxRows
   /\ inMaxRows >= 1
   /\ Len(NumericColumns(inTable)) >= 2
   /\ CategoricalColumns(inTable) = << >>
   /\ DatetimeColumns(inTable) = << >>)
  => /\ ~result.threw
     /\ result.method = "cluster"
     /\ Len(result.rows) = inMaxRows

(***************************************************************************)
(* The Schema Inspector of the Python backend, which the frontend reaches  *)
(* through analyzeData (services/api.js).  Its code is not part of the     *)
(* sources at hand; inspect is written from its contract (spec section     *)
(* 4.1, data model of section 3).                                          *)
(***************************************************************************)
Null == [t |-> "null", h |-> 0, s |-> ""]

\* The most rows of an inspected table.
MaxInspectRows == 4

\* Tables whose rows share one column set: two nullable numeric columns, a
\* categorical and a nullable numeric column, or no column at all.
InspectRows ==
  { {Obj(<< Prop("x", x), Prop("y", y) >>) :
       x \in {Null, N(1), N(2)}, y \in {Null, N(1), N(2)}},
    {Obj(<< Prop("c", c), Prop("x", x) >>) :
       c \in {Str("A"), Str("B")}, x \in {Null, N(1), N(2)}},
    {Obj(<< >>)} }

InspectTables ==
  UNION {UNION {[1..n -> rows] : n \in 0..MaxInspectRows} : rows \in InspectRows}

EmptyTableError ==
  [failed |-> TRUE, error |-> "EmptyTableError", rowCount |-> 0,
   columnCount |-> 0, columns |-> << >>, correlationMatrix |-> << >>]

ParsesAsNumber(v) ==
  v.t = "num" \/ (v.t = "str" /\ v.s \in DOMAIN DecimalLiterals)

ColumnValues(table, col) ==
  {Get(table[i], col) : i \in 1..Len(table)} \ {Null}

\* uniqueCount / rowCount > 0.9, in tenths
IdentifierRatio == 9

\* The type inference order: numeric, datetime, identifier, categorical
InferredType(table, col) ==
  IF \A v \in ColumnValues(table, col) : ParsesAsNumber(v) THEN "numeric"
  ELSE IF \A v \in ColumnValues(table, col) : IsDateString(v) THEN "datetime"
  ELSE IF Cardinality(ColumnValues(table, col)) * 10
            > IdentifierRatio * Len(table)
       THEN "identifier"
  ELSE "categorical"

ColumnProfile(table, col) ==
  [name |-> col,
   inferredType |-> InferredType(table, col),
   uniqueCount |-> Cardinality(ColumnValues(table, col)),
   nullCount |-> Cardinality({i \in 1..Len(table) : Get(table[i], col) = Null})]

\* The mutation of PairRows: only a null in the first column of the pair
\* excludes a row
PairRowsByFirstColumn(table, a, b) ==
  SelectSeq(table, LAMBDA row : Get(row, a) # Null)

\* The rows a pair of columns is correlated over: those with a null in
\* neither column
PairRows(table, a, b) ==
  SelectSeq(table, LAMBDA row : Get(row, a) # Null /\ Get(row, b) # Null)

\* The number in a cell, in units (the coefficient does not depend on the
\* unit, and the inspected tables hold whole numbers); the column "" is the
\* constant 1
CellNumber(row, col) ==
  IF col = "" THEN 1 ELSE ToNumber(Get(row, col)).h \div Scale

\* The sum of the products of columns a and b over the first i rows
RECURSIVE SumOfProducts(_, _, _, _)
SumOfProducts(rows, a, b, i) ==
  IF i = 0 THEN 0
  ELSE SumOfProducts(rows, a, b, i - 1)
       + CellNumber(rows[i], a) * CellNumber(rows[i], b)

RECURSIVE GCD(_, _)
GCD(m, n) == IF n = 0 THEN m ELSE GCD(n, m % n)

\* A coefficient r is kept exactly, as its sign and r * r in lowest terms;
\* it is undefined where a variance is zero.
Coefficient(defined, sign, num, den) ==
  [defined |-> defined, sign |-> sign, num |-> num, den |-> den]

One == Coefficient(TRUE, 1, 1, 1)

\* The Pearson coefficient of columns a and b over their pair rows
Pearson(table, a, b) ==
  LET rows == PairRows(table, a, b)
      n == Len(rows)
      sum(p, q) == SumOfProducts(rows, p, q, n)
      cov == n * sum(a, b) - sum(a, "") * sum(b, "")
      varA == n * sum(a, a) - sum(a, "") * sum(a, "")
      varB == n * sum(b, b) - sum(b, "") * sum(b, "")
      g == GCD(cov * cov, varA * varB)
  IN IF varA * varB = 0 THEN Coefficient(FALSE, 0, 0, 1)
     ELSE Coefficient(TRUE,
                      IF cov > 0 THEN 1 ELSE IF cov < 0 THEN -1 ELSE 0,
                      (cov * cov) \div g, (varA * varB) \div g)

\* The matrix over the ordered pairs of numeric columns; a self-pair is 1.0
correlationMatrix(table, numeric) ==
  [a \in numeric |->
     [b \in numeric |-> IF a = b THEN One ELSE Pearson(table, a, b)]]

\* The mutation of inspect: only a table without rows is empty
inspectRowsOnly(table) ==
  IF Len(table) = 0 THEN EmptyTableError
  ELSE LET names == Keys(table[1])
       IN [failed |-> FALSE, error |-> "", rowCount |-> Len(table),
           columnCount |-> Len(names),
           columns |-> [i \in 1..Len(names) |-> ColumnProfile(table, names[i])],
           correlationMatrix |-> << >>]

inspect(table) ==
  IF Len(table) = 0 \/ Len(Keys(table[1])) = 0 THEN EmptyTableError
  ELSE LET names == Keys(table[1])
           columns == [i \in 1..Len(names) |-> ColumnProfile(table, names[i])]
           numeric == {names[i] : i \in {j \in 1..Len(names) :
                                           columns[j].inferredType = "numeric"}}
       IN [failed |-> FALSE, error |-> "",
           rowCount |-> Len(table),
           columnCount |-> Len(columns),
           columns |-> columns,
           correlationMatrix |-> correlationMatrix(table, numeric)]

InitInspect ==
  /\ inTable \in InspectTables
  /\ inMaxRows = 1
  /\ result = NoResult
  /\ result2 = NoResult
  /\ phase = "input"
  /\ apiKey = "set"
  /\ sampleData = "sample"
  /\ Constructed(50)
  /\ UploaderConstructed
  /\ PreviewIdle
  /\ LauncherIdle

Inspect ==
  /\ phase = "input"
  /\ result' = inspect(inTable)
  /\ phase' = "inspected"
  /\ UNCHANGED << inTable, inMaxRows, result2, playVars, uploaderVars,
                  previewVars, launcherVars >>

NextInspect == Inspect

SpecInspect == InitInspect /\ [][NextInspect]_vars

Inspected == phase = "inspected"

\* C19: for a table with at least one row and one column inspect does not
\* fail and the summary's rowCount and columnCount are the table's numbers
\* of rows and of columns; for a table with no row or no column it fails
\* with EmptyTableError.
C19_CountsOrEmptyTableError ==
  Inspected =>
    IF Len(inTable) >= 1 /\ Columns(inTable) # {}
    THEN /\ ~result.failed
         /\ result.rowCount = Len(inTable)
         /\ result.columnCount = Cardinality(Columns(inTable))
         /\ Len(result.columns) = result.columnCount
    ELSE result.failed /\ result.error = "EmptyTableError"

\* C19 witness: a table of three rows and two columns, one of them holding
\* a null, was inspected and its summary counts 3 and 2.
C19_Witness ==
  /\ Inspected
  /\ Len(inTable) = 3
  /\ \E i \in 1..3 : Get(inTable[i], "x") = Null
  /\ ~result.failed
  /\ result.rowCount = 3
  /\ result.columnCount = 2

\* The numeric columns of the inspected table
NumericNames ==
  {result.columns[i].name :
     i \in {j \in 1..Len(result.columns) :
              result.columns[j].inferredType = "numeric"}}

\* C20: the correlation matrix has an entry for every ordered pair of
\* numeric columns, matrix[a][b] = matrix[b][a], every self-pair is 1.0,
\* and the Pearson formula agrees with that 1.0 wherever it is defined on
\* a self-pair.
C20_SymmetricWithUnitDiagonal ==
  (Inspected /\ ~result.failed) =>
    LET matrix == result.correlationMatrix
    IN /\ DOMAIN matrix = NumericNames
       /\ \A a \in NumericNames :
            /\ DOMAIN matrix[a] = NumericNames
            /\ matrix[a][a] = One
            /\ Pearson(inTable, a, a).defined => Pearson(inTable, a, a) = One
            /\ \A b \in NumericNames : matrix[a][b] = matrix[b][a]

\* C20 witness: two numeric columns, a row with a null in x only, and a
\* coefficient of x and y that is defined and neither 1 nor -1 nor 0.
C20_Witness ==
  /\ Inspected
  /\ ~result.failed
  /\ NumericNames = {"x", "y"}
  /\ \E i \in 1..Len(inTable) :
       Get(inTable[i], "x") = Null /\ Get(inTable[i], "y") # Null
  /\ result.correlationMatrix["x"]["y"].defined
  /\ result.correlationMatrix["x"]["y"].sign # 0
  /\ result.correlationMatrix["x"]["y"] # One
  /\ result.correlationMatrix["x"]["y"].num # result.correlationMatrix["x"]["y"].den

\* A step in which a handleDataUpload finishes: the backend-assisted one at
\* once or after its analyzeData call settled, the client-side one at once.
UploadHandled ==
  \/ \E data \in DataNames :
       \E summary \in {NoSummary, SummaryOf(data)} :
         handleDataUpload(data, summary) /\ uploads' = uploads
  \/ \E i \in 1..Len(uploads) : analyzeDataResolved(i) \/ analyzeDataRejected(i)
  \/ \E data \in ClientFiles \cup {"sample"} : ClientHandleDataUpload(data)

\* C22: when a handleDataUpload has finished, generatedCode and
\* editableCode are both empty, whatever they held when the upload
\* started.
C22_NoCodeAfterUpload ==
  [][UploadHandled => (generatedCode' = NoCode /\ editableCode' = NoCode)]_vars

\* C23: whenever generatedCode holds code a query submission generated, the
\* code was generated from the table userData holds; an upload during a
\* submission leaves no code of the previous table on display.
C23_CodeOfCurrentTable ==
  generatedCode.text = "generated" => generatedCode.data.name = userData

\* C24: once every analyzeData call has settled, dataSummary is the summary
\* of the table in userData or, where no summary of it was obtained, null;
\* never the summary of another table.
C24_SummaryOfCurrentTable ==
  (uploads = << >> /\ userData # "null") =>
    dataSummary \in {SummaryOf(userData), NoSummary}

(***************************************************************************)
(* The backend-assisted playground where every awaited call of a query     *)
(* submission settles: a pending processQuery or generateContent call is   *)
(* eventually answered or rejected.                                        *)
(***************************************************************************)
SubmissionSettles ==
  \/ \E i \in 1..Len(submits) :
       \E res \in ProcessResults(submits[i]) : processQueryResolved(i, res)
  \/ \E i \in 1..Len(submits) : processQueryRejected(i)
  \/ \E i \in 1..Len(submits) :
       \E blank \in BOOLEAN : generateContentResolved(i, blank)
  \/ \E i \in 1..Len(submits) : generateContentRejected(i)

\* The handlers that read or write isLoading or a submission; the limit
\* input, the chart type select, the code editor and Run touch neither.
NextSubmit ==
  \/ Mount
  \/ \E isRunning \in {"true", "false"} : checkServer(isRunning)
  \/ \E value \in Queries : setUserQuery(value)
  \/ \E data \in DataNames :
       \E summary \in {NoSummary, SummaryOf(data)} :
         handleDataUpload(data, summary)
  \/ \E i \in 1..Len(uploads) : analyzeDataResolved(i)
  \/ \E i \in 1..Len(uploads) : analyzeDataRejected(i)
  \/ handleQuerySubmit
  \/ SubmissionSettles

FairSpec == Init /\ [][NextSubmit]_vars /\ WF_vars(SubmissionSettles)

\* A handleQuerySubmit that one of its two preconditions turns away
RejectedByPrecondition ==
  /\ handleQuerySubmit
  /\ \/ Trim(userQuery) = << >>
     \/ userData = "null"
     \/ ~geminiKeyValid

\* C25: where every awaited call settles, isLoading set by a submission is
\* eventually false again, however the calls end, and a submission turned
\* away by a precondition does not set isLoading.
C25_LoadingEnds ==
  /\ isLoading ~> ~isLoading
  /\ [][RejectedByPrecondition => (~isLoading' /\ submits' = submits)]_vars

\* C25 witness: a submission whose code generation was rejected has ended;
\* the error is shown and isLoading is false.
C25_Witness ==
  /\ ~isLoading
  /\ submits = << >>
  /\ error = ErrGeneratingCode
  /\ userQuery # << >>

\* The table a client-side submission reads is empty
SubmittedTableEmpty ==
  ClientTable(IF userData # "null" THEN userData ELSE sampleData) = << >>

\* A step of a client-side submission that fails: the cleaned text lacks
\* one of the three substrings, the model call fails, or the table is empty
ClientSubmissionFails ==
  \/ \E i \in 1..Len(submits) :
       \E parts \in (SUBSET CodeParts) \ {CodeParts} :
         ClientGenerateContentResolved(i, parts)
  \/ \E i \in 1..Len(submits) : ClientGenerateContentRejected(i)
  \/ ClientHandleQuerySubmit /\ SubmittedTableEmpty

ClientSubmissionStep ==
  \/ ClientHandleQuerySubmit
  \/ \E i \in 1..Len(submits) :
       \E parts \in SUBSET CodeParts : ClientGenerateContentResolved(i, parts)
  \/ \E i \in 1..Len(submits) : ClientGenerateContentRejected(i)

\* C26: a step of a client-side submission changes generatedCode only to
\* code that holds 'import', 'ResponsiveContainer' and 'render(', and a
\* failing step sets the error and leaves generatedCode and editableCode
\* as they were.
C26_OnlyValidatedCode ==
  /\ [][(ClientSubmissionStep /\ generatedCode' # generatedCode)
        => (/\ generatedCode'.text = "generated"
            /\ generatedCode'.parts = CodeParts
            /\ editableCode' = generatedCode')]_vars
  /\ [][ClientSubmissionFails
        => (/\ error' # "null"
            /\ generatedCode' = generatedCode
            /\ editableCode' = editableCode)]_vars

\* C26 witness: after one submission produced code, another one failed the
\* validation: the error is set and the earlier code is still there.
C26_Witness ==
  /\ error = ErrMissingElements
  /\ ~isLoading
  /\ generatedCode.text = "generated"
  /\ generatedCode.parts = CodeParts

\* C27: at most one query submission is in flight, isLoading is true
\* exactly while one is, and while it is true neither the Generate button
\* nor Ctrl+Enter starts a handleQuerySubmit.
C27_OneSubmissionInFlight ==
  /\ Len(submits) <= 1
  /\ isLoading <=> submits # << >>
  /\ isLoading => ~ENABLED handleQuerySubmit

\* C27 witness: a submission waits for the code generator after the
\* backend answered, with a query and a table that would pass the
\* preconditions of another submission.
C27_Witness ==
  /\ isLoading
  /\ Len(submits) = 1
  /\ submits[1].pc = "generateContent"
  /\ submits[1].backend = "ok"
  /\ Trim(userQuery) # << >>
  /\ userData # "null"
  /\ geminiKeyValid

\* What the user's most recent load action asked for: the sample data
\* after Use Sample Data (which clears fileName), else the selected file.
LatestLoadAction == IF fileName = "" THEN sampleData ELSE fileName

\* C28: in the client-side DataUploader isLoading is false only when no
\* load is pending, and once the table of the user's most recent load
\* action has been handed to onDataUpload no load started before it hands
\* on another table.
C28_LastLoadWins ==
  /\ [](~upIsLoading => loads = << >>)
  /\ [][(/\ delivered' # delivered
         /\ delivered # << >>
         /\ delivered[Len(delivered)].file = LatestLoadAction
         /\ \A i \in 1..Len(loads) : loads[i].file # LatestLoadAction)
        => delivered'[Len(delivered')].file = LatestLoadAction]_vars

\* Every state variable of the playground but generatedCode and
\* editableCode.
NotTheCode ==
  << apiKey, isMounted, serverCheck, userQuery, userData, sampleData,
     dataSummary, isLoading, error, selectedChartType, dataLimit, insights,
     additionalCharts, serverStatus, geminiKeyValid, submits, uploads >>

\* A generation that ended with code: the awaited generateContent resolved
\* to a text that is not blank.
GeneratedSuccessfully ==
  \E i \in 1..Len(submits) :
    /\ generateContentResolved(i, FALSE)
    /\ generatedCode' # NoCode

\* C29: editing the code changes editableCode and nothing else; Run sets
\* generatedCode to the current editableCode and changes nothing else;
\* right after a successful generation generatedCode equals editableCode.
C29_EditAndRun ==
  /\ [][handleCodeEdit(TypedCode) =>
          /\ editableCode' = TypedCode
          /\ generatedCode' = generatedCode
          /\ NotTheCode' = NotTheCode]_vars
  /\ [][handleRunCode =>
          /\ generatedCode' = editableCode
          /\ editableCode' = editableCode
          /\ NotTheCode' = NotTheCode]_vars
  /\ [][GeneratedSuccessfully => generatedCode' = editableCode']_vars

\* C29 witness: code was generated, the user edited it and pressed Run;
\* the typed text is rendered and a table is still held.
C29_Witness ==
  /\ generatedCode = TypedCode
  /\ editableCode = TypedCode
  /\ userData # "null"
  /\ ~isLoading

(***************************************************************************)
(* The launcher script: startServers checks the Python installation and    *)
(* the backend directory, spawns the backend, waits two seconds, spawns    *)
(* the frontend and then registers its SIGINT handler.                     *)
(***************************************************************************)
\* How `python --version` ends: its close code, or ENOENT when the spawn
\* fails because there is no python in PATH.
PythonOutcomes == {"0", "1", "ENOENT"}

\* The machines the launcher runs on; requirements.txt lies in the backend
\* directory.
Environments ==
  { e \in [python : PythonOutcomes, backendDir : BOOLEAN,
           requirements : BOOLEAN] : e.requirements => e.backendDir }

\* The codes a child's close event carries; null after a signal ended it.
CloseCodes == {"0", "1", "null"}

\* checkPythonInstallation resolves true on close code 0, false on any
\* other close code.
checkPythonInstallation(code) == code = "0"

\* checkBackendDirectory
checkBackendDirectory == env.backendDir /\ env.requirements

\* runCommand: the spawned child
runCommand(name) ==
  [name |-> name, state |-> "running", code |-> "none", signals |-> << >>,
   interrupted |-> FALSE, logged |-> FALSE]

\* proc.kill(signal): a child that has exited is sent nothing
Kill(proc, signal) ==
  IF proc.state = "running"
  THEN [proc EXCEPT !.signals = Append(@, signal)]
  ELSE proc

\* The script was started: startServers ran up to
\* await checkPythonInstallation()
InitLauncher ==
  /\ ReducerIdle
  /\ apiKey = "set"
  /\ sampleData = "sample"
  /\ Constructed(10)
  /\ UploaderConstructed
  /\ PreviewIdle
  /\ launcherPc = "checkPython"
  /\ exitCode = "running"
  /\ env \in Environments
  /\ backendProc = NoProc
  /\ frontendProc = NoProc
  /\ spawned = << >>

\* startServers after `python --version` ended, up to the two-second wait.
\* A failed spawn emits 'error' on a child without an 'error' listener:
\* the uncaught exception ends the launcher with code 1.
PythonCheckSettled ==
  /\ launcherPc = "checkPython"
  /\ IF \/ env.python = "ENOENT"
        \/ ~checkPythonInstallation(env.python)
        \/ ~checkBackendDirectory
     THEN /\ launcherPc' = "exited"
          /\ exitCode' = "1"
          /\ UNCHANGED << backendProc, spawned >>
     ELSE /\ backendProc' = runCommand("Backend server")
          /\ spawned' = Append(spawned, "Backend server")
          /\ launcherPc' = "waiting"
          /\ UNCHANGED exitCode
  /\ UNCHANGED << reduceVars, playVars, uploaderVars, previewVars, env,
                  frontendProc >>

\* startServers after the two-second timer: the frontend is spawned and
\* the SIGINT handler registered
WaitElapsed ==
  /\ launcherPc = "waiting"
  /\ frontendProc' = runCommand("Frontend server")
  /\ spawned' = Append(spawned, "Frontend server")
  /\ launcherPc' = "running"
  /\ UNCHANGED << reduceVars, playVars, uploaderVars, previewVars, env,
                  exitCode, backendProc >>

\* Ctrl+C in the terminal: the children were spawned without `detached`,
\* so they are in the launcher's foreground process group and get the
\* terminal's SIGINT themselves
Interrupted(proc) ==
  IF proc.state = "running" THEN [proc EXCEPT !.interrupted = TRUE] ELSE proc

\* SIGINT reaches the launcher process, from the terminal (with the whole
\* process group) or sent to the launcher alone.  With the handler
\* registered both children are killed with SIGINT and the launcher exits
\* with 0; before that the signal's default action ends the launcher.
SIGINT(terminal) ==
  /\ launcherPc \in {"checkPython", "waiting", "running"}
  /\ LET backend == IF terminal THEN Interrupted(backendProc)
                    ELSE backendProc
         frontend == IF terminal THEN Interrupted(frontendProc)
                     ELSE frontendProc
     IN IF launcherPc = "running"
        THEN /\ backendProc' = Kill(backend, "SIGINT")
             /\ frontendProc' = Kill(frontend, "SIGINT")
             /\ exitCode' = "0"
        ELSE /\ backendProc' = backend
             /\ frontendProc' = frontend
             /\ exitCode' = "SIGINT"
  /\ launcherPc' = "exited"
  /\ UNCHANGED << reduceVars, playVars, uploaderVars, previewVars, env,
                  spawned >>

\* proc.on('close', ...) of runCommand, which runs while the launcher
\* lives: a code other than 0 and null is logged as an error
CloseLogged(code) == launcherPc # "exited" /\ code \notin {"0", "null"}

\* A child process ends
BackendClosed(code) ==
  /\ backendProc.state = "running"
  /\ backendProc' = [backendProc EXCEPT !.state = "closed", !.code = code,
                                           !.logged = CloseLogged(code)]
  /\ UNCHANGED << reduceVars, playVars, uploaderVars, previewVars, env,
                  launcherPc, exitCode, frontendProc, spawned >>

FrontendClosed(code) ==
  /\ frontendProc.state = "running"
  /\ frontendProc' = [frontendProc EXCEPT !.state = "closed", !.code = code,
                                           !.logged = CloseLogged(code)]
  /\ UNCHANGED << reduceVars, playVars, uploaderVars, previewVars, env,
                  launcherPc, exitCode, backendProc, spawned >>

NextLauncher ==
  \/ PythonCheckSettled
  \/ WaitElapsed
  \/ \E terminal \in BOOLEAN : SIGINT(terminal)
  \/ \E code \in CloseCodes : BackendClosed(code)
  \/ \E code \in CloseCodes : FrontendClosed(code)

SpecLauncher == InitLauncher /\ [][NextLauncher]_vars

\* Both checks of startServers pass on this machine
ChecksPass == checkPythonInstallation(env.python) /\ checkBackendDirectory

\* The launcher has ended because of a SIGINT
EndedBySIGINT == launcherPc = "exited" /\ exitCode \in {"0", "SIGINT"}

\* C30: nothing is spawned unless both checks passed, and a launcher whose
\* checks failed ends with code 1 having spawned nothing; the backend is
\* spawned before the frontend; when a SIGINT has ended the launcher, each
\* child that is running was sent SIGINT, by the launcher or with it.
C30_LauncherStartsAndStops ==
  /\ spawned # << >> => ChecksPass
  /\ (~ChecksPass /\ launcherPc = "exited" /\ ~EndedBySIGINT)
       => (exitCode = "1" /\ spawned = << >>)
  /\ spawned \in {<< >>, << "Backend server" >>,
                  << "Backend server", "Frontend server" >>}
  /\ EndedBySIGINT =>
       \A proc \in {backendProc, frontendProc} :
         proc.state = "running" =>
           (proc.signals = << "SIGINT" >> \/ proc.interrupted)

(***************************************************************************)
(* The insight generator of the backend, generate(table, summary).  What   *)
(* it reads of its input is how many findings of each kind the table       *)
(* holds; an insight is kept as its kind and the finding it states.        *)
(***************************************************************************)
\* The cap on the number of insights
MaxInsights == 10

\* The most numeric and the most datetime columns of a summarised table
MaxNumeric == 4

MaxDatetime == 2

\* The kinds of insight, most significant first
InsightKinds == << "correlation", "trend", "outlier", "summary" >>

Priority(kind) == CHOOSE p \in 1..Len(InsightKinds) : InsightKinds[p] = kind

\* What generate finds in a table: its numeric and datetime columns, the
\* unordered pairs of numeric columns correlated above the threshold, the
\* datetime-numeric pairs with a trend, the numeric columns with outliers,
\* and whether the column count is small enough for per-column statements.
Findings ==
  { f \in [numeric : 0..MaxNumeric, datetime : 0..MaxDatetime,
           correlated : 0..((MaxNumeric * (MaxNumeric - 1)) \div 2),
           trends : 0..(MaxDatetime * MaxNumeric),
           outliers : 0..MaxNumeric, small : BOOLEAN] :
      /\ f.correlated <= (f.numeric * (f.numeric - 1)) \div 2
      /\ f.trends <= f.datetime * f.numeric
      /\ f.outliers <= f.numeric }

\* n insights of one kind, in the order of their findings
InsightsOf(kind, n) == [i \in 1..n |-> [kind |-> kind, subject |-> i]]

\* Summary insights: the row and column counts always, one statement per
\* numeric column if the column count is small
summaryInsights(f) ==
  << [kind |-> "summary", subject |-> 0] >>
    \o (IF f.small THEN InsightsOf("summary", f.numeric) ELSE << >>)

\* All the insights generate emits before the cap, by priority
candidateInsights(f) ==
  InsightsOf("correlation", f.correlated) \o InsightsOf("trend", f.trends)
    \o InsightsOf("outlier", f.outliers) \o summaryInsights(f)

\* The mutation of generate: the cap keeps the insights emitted last
generateKeepLast(f) ==
  LET all == candidateInsights(f)
  IN IF Len(all) <= MaxInsights THEN all
     ELSE SubSeq(all, Len(all) - MaxInsights + 1, Len(all))

\* generate: the insights by priority, capped
generate(f) ==
  LET all == candidateInsights(f)
  IN IF Len(all) <= MaxInsights THEN all ELSE SubSeq(all, 1, MaxInsights)

InitInsights ==
  /\ inTable \in Findings
  /\ inMaxRows = 1
  /\ result = NoResult
  /\ result2 = NoResult
  /\ phase = "input"
  /\ apiKey = "set"
  /\ sampleData = "sample"
  /\ Constructed(50)
  /\ UploaderConstructed
  /\ PreviewIdle
  /\ LauncherIdle

Generate ==
  /\ phase = "input"
  /\ result' = generate(inTable)
  /\ phase' = "generated"
  /\ UNCHANGED << inTable, inMaxRows, result2, playVars, uploaderVars,
                  previewVars, launcherVars >>

NextInsights == Generate

SpecInsights == InitInsights /\ [][NextInsights]_vars

\* How many insights of a kind a list holds
CountOfKind(list, kind) ==
  Cardinality({i \in 1..Len(list) : list[i].kind = kind})

\* How many insights of a kind the findings call for
Available(f, kind) ==
  CASE kind = "correlation" -> f.correlated
    [] kind = "trend" -> f.trends
    [] kind = "outlier" -> f.outliers
    [] kind = "summary" -> 1 + (IF f.small THEN f.numeric ELSE 0)

====
